---- MODULE Spec2Model ----
(***************************************************************************)
(* Replication manager of tendisplus (replication/repl_manager.cpp):       *)
(* the controller thread, the recycle job, changeReplSource, stopStore     *)
(* and the callbacks of the storage layer, as one state machine.           *)
(*                                                                         *)
(* Every operation that runs in one critical section of the central mutex  *)
(* (_mutex) is one action.  A job that takes the mutex several times is    *)
(* split at the points where it releases it; a reading of the clock or a   *)
(* write of a member made before a lock is waited for is a step of its     *)
(* own.  Results of the external collaborators (Store, Catalog,            *)
(* SegmentMgr) are inputs drawn with \E.                                   *)
(* The slave-sync job, the master-push job and the registration of         *)
(* subscribers live in other translation units of the repository; they     *)
(* are modelled from the specification and marked so in the map.           *)
(***************************************************************************)
EXTENDS Integers, FiniteSets, Sequences, TLC

\* ------------------------------------------------------------ bounds
Stores == {0, 1}            \* _svr->getKVStoreCount() stores
MaxTime == 1                \* the clock is advanced up to this instant
MaxLongTime == 2            \* ... and up to this one where a full push expires
MaxBinlogId == 3            \* binlog ids of the store are 1..MaxBinlogId
MaxClients == 1             \* _clientIdGen is advanced up to this value
MaxNodes == 2               \* keys of _fullPushStatus[i] are 1..MaxNodes
MaxDigit == 2               \* digits of a file sequence field are 0..MaxDigit
MaxFiles == 2               \* files found under <dumpPath>/<i>/ at startup
MaxFileSeq == 1             \* an archive file is rotated while fileSeq is below

\* ------------------------------------------------------------ program constants
TXNID_UNINITED == 0         \* Transaction::TXNID_UNINITED
MIN_VALID_TXNID == 1        \* Transaction::MIN_VALID_TXNID
U64Max == 2147483647        \* std::numeric_limits<uint64_t>::max()
TimeMax == 2147483646       \* SCLOCK::time_point::max()
U32Max == 2147483645        \* std::numeric_limits<uint32_t>::max()
ConnectTimeoutAttach == 1000
ConnectTimeoutDetach == 1
SlaveBackoff == 1           \* backoff of the slave-sync job, in clock steps
PushBackoff == 1            \* backoff of the master-push job, in clock steps
SyncedBinlogId == 2         \* binlog id a finished full sync leaves in the meta
DeferDelay == 1             \* std::chrono::seconds(1) of the deferred run
FullPushKeep == 1           \* std::chrono::seconds(600), in clock steps
TruncateIntervals == {1, 2} \* truncateBinlogIntervalMs * [0.80, 1.20)

Hosts == {"h1"}             \* non-empty source hosts used by callers
SrcPort == 1
SrcStoreId == 1
SessionIds == {7}
BinlogIds == 1..MaxBinlogId
ClientIds == 1..MaxClients
NodeKeys == 1..MaxNodes     \* in the order of the std::map

NotFound == [notfound |-> TRUE]

VARIABLES
    now,                    \* SCLOCK::now()
    fatal,                  \* LOG(FATAL) was reached: the process aborted
    mode,                   \* KVStore mode of store i
    isEmpty,                \* store->isEmpty(true)
    binlog,                 \* ids of the binlog records store i retains
    highest,                \* store->getHighestBinlogId()
    catalog,                \* Catalog: persisted StoreMeta of store i
    dumpFiles,              \* files under <dumpPath>/<i>/
    syncMeta,               \* _syncMeta
    syncStatus,             \* _syncStatus
    pushStatus,             \* _pushStatus
    fullPushStatus,         \* _fullPushStatus
    logRecycStatus,         \* _logRecycStatus
    connectMasterTimeoutMs, \* _connectMasterTimeoutMs
    clientIdGen,            \* _clientIdGen
    slaveJob,               \* jobs of the full-receive / incr-check pools
    pushJob,                \* jobs of the incr-push pool
    recycJob,               \* jobs of the log-recycle pool
    changeCall,             \* the call of changeReplSource under way on store i
    stopped,                \* stopStore(i) has returned
    threads,                \* the locks each thread holds and where it stands
    passNow,                \* the local now of controlRoutine, once it is read
    last                    \* the step just taken, with its result

storeVars == <<mode, isEmpty, binlog, highest, catalog, dumpFiles>>
slaveVars == <<syncMeta, syncStatus, connectMasterTimeoutMs, slaveJob,
              changeCall>>
masterVars == <<pushStatus, fullPushStatus, clientIdGen, pushJob>>
recycVars == <<logRecycStatus, recycJob>>
vars == <<now, fatal, storeVars, slaveVars, masterVars, recycVars, stopped,
          threads, passNow, last>>

\* ------------------------------------------------------------ helpers
Min(S) == CHOOSE x \in S : \A y \in S : x <= y

isOpen(i) == mode[i] # "STORE_NONE"

NoOp == [op |-> "none"]

\* StoreMeta(i, "", 0, -1, TXNID_UNINITED, REPL_NONE)
DefaultMeta(i) ==
    [id |-> i, syncFromHost |-> "", syncFromPort |-> 0, syncFromId |-> -1,
     binlogId |-> TXNID_UNINITED, replState |-> "REPL_NONE"]

\* a meta as changeReplSource persists it on attach
ConnectMeta(i, h) ==
    [id |-> i, syncFromHost |-> h, syncFromPort |-> SrcPort,
     syncFromId |-> SrcStoreId, binlogId |-> TXNID_UNINITED,
     replState |-> "REPL_CONNECT"]

\* a meta as the slave-sync job persists it once the full sync is done
ConnectedMeta(i, h, b) ==
    [id |-> i, syncFromHost |-> h, syncFromPort |-> SrcPort,
     syncFromId |-> SrcStoreId, binlogId |-> b, replState |-> "REPL_CONNECTED"]

\* locals of a recycleBinlog run; start is not initialized until it is read
\* from _logRecycStatus (startInit)
IdleRecycJob ==
    [n |-> 0, pc |-> "none", nextSched |-> 0, start |-> 0, startInit |-> FALSE,
     end |-> 0, saveLogs |-> FALSE, newStart |-> 0, hasError |-> FALSE,
     before |-> 0]

\* the threads that enter the manager: the caller of startup, the
\* controller, a worker of the log-recycle pool, and callers of the public
\* operations that take a lock
Threads ==
    {"startup", "controlRoutine", "recycleBinlog", "changeReplSource",
     "changeReplState", "onFlush", "flushCurBinlogFs", "resetRecycleState",
     "stopStore", "getReplInfoSimple", "getReplInfoDetail", "appendJSONStat"}

\* a thread about to enter its operation for store 0: it holds no lock
ThreadAtEntry == [pc |-> 1, held |-> <<>>, s |-> 0]

\* no call of changeReplSource is under way on the store
NoCall ==
    [pc |-> "none", ip |-> "", port |-> 0, sourceStoreId |-> 0, oldTimeout |-> 0]

\* a call of changeReplSource holds LOCK_X on store i until it returns
HoldsLockX(i) == changeCall[i].pc # "none"

\* a recycle job holds LOCK_IX on store i from getDb until it returns
HoldsLockIX(i) == recycJob[i].pc \in {"enter", "truncate", "commit"}

\* the controller is at the top of its loop: it has not read the clock
NoReading == -1

\* stopStore(i) has returned
Stopped(i) == stopped[i]

\* ------------------------------------------------------------ maxDumpFileSeq
\* a character that is no digit
NonDigit == 10

\* the text of a file name from its second dash up to its third dash, or up
\* to its end when it has no third dash: digits, "x", or a digit and ".log"
FileSeqFields ==
    {<<a, b>> : a \in 0..MaxDigit, b \in 0..MaxDigit}
    \cup {<<a, NonDigit>> : a \in 0..MaxDigit} \cup {<<NonDigit>>}

\* a directory entry: whether it is a regular file, the dashes of its name
\* and the text that follows its second dash
NoDumpFile == [regular |-> FALSE, dashes |-> 0, third |-> <<>>]
DumpFileNames ==
    {[regular |-> TRUE, dashes |-> n, third |-> f] :
        n \in {2, 3}, f \in FileSeqFields}
    \cup {NoDumpFile} \cup {[regular |-> TRUE, dashes |-> n, third |-> <<>>] :
                                n \in {0, 1}}

\* relative.substr(start, end - start).  Three dashes: the text between the
\* second and the third.  Two dashes: start is behind the second dash and
\* end stays 0, end - start wraps round and the substring is the rest of the
\* name.  Fewer: start = end = 0, the empty string.
FileSeqField(file) == IF file.dashes >= 2 THEN file.third ELSE <<>>

\* tendisplus::stoul: fails on the empty string and on a non-digit
StoulOk(f) == f # <<>> /\ \A k \in 1..Len(f) : f[k] # NonDigit

RECURSIVE StoulValue(_)
StoulValue(f) ==
    IF f = <<>> THEN 0
    ELSE 10 * StoulValue(SubSeq(f, 1, Len(f) - 1)) + f[Len(f)]

Max(S) == CHOOSE x \in S : \A y \in S : x >= y

\* what value() of a failed Expected<uint64_t> gives when it returns: the
\* payload was never written, it holds what the memory held
FailedValues == 0..(11 * MaxDigit) \cup {U32Max}

\* <dumpPath>/<i>/ with no entry
EmptyDumpDir == [usable |-> TRUE, files |-> {}]

\* maxDumpFileSeq(storeId) over <dumpPath>/<storeId>/.  The directory cannot
\* be created or read: ERR_INTERNAL.  Every name parses: the largest file
\* sequence of a regular file, 0 when there is none.  A number that does not
\* fit is an error.  A name that does not parse returns fno.value() of the
\* failed Expected: the call succeeds with the payload that was never
\* written, whatever was scanned before, or value() aborts the process.  The
\* entries come in the order the directory gives them, the first that fails
\* decides.
maxDumpFileSeq(dir) ==
    LET scanned == {f \in dir.files : f.regular}
        unparsed == {f \in scanned : ~StoulOk(FileSeqField(f))}
        tooLarge == {f \in scanned : /\ StoulOk(FileSeqField(f))
                                     /\ StoulValue(FileSeqField(f)) >= U32Max}
    IN  IF ~dir.usable
        THEN {[result |-> "error", value |-> 0]}
        ELSE IF unparsed = {} /\ tooLarge = {}
        THEN {[result |-> "ok",
               value |-> Max({0} \cup {StoulValue(FileSeqField(f)) :
                                         f \in scanned})]}
        ELSE (IF unparsed # {}
              THEN {[result |-> "ok", value |-> v] : v \in FailedValues}
                   \cup {[result |-> "abort", value |-> 0]}
              ELSE {})
             \cup (IF tooLarge # {}
                   THEN {[result |-> "error", value |-> 0]}
                   ELSE {})

\* ------------------------------------------------------------ startup
\* what the scan of startup gives for store i: no scan for a closed store,
\* fileSeq stays u32 max
StartupScans(open, dir) ==
    IF open THEN maxDumpFileSeq(dir) ELSE {[result |-> "ok", value |-> U32Max]}

StartupTpNow(open, t) == t

\* tp of startup: now for an open store, time_point::max() for a closed one
StartupTp(open, t) == IF open THEN t ELSE TimeMax

\* the mode startup sets on an open store
StartupStoreMode(host) == IF host = "" THEN "READ_WRITE" ELSE "REPLICATE_ONLY"

\* the modes of an open store that startup has not set yet
OpenModes == {"READ_WRITE", "REPLICATE_ONLY"}

\* the meta startup caches for store i; reached: the second loop of startup
\* has come to the store
StartupMeta(i, entry, reached, hi) ==
    LET m == IF entry = NotFound THEN DefaultMeta(i) ELSE entry
    IN  IF reached /\ m.syncFromHost # ""
        THEN [m EXCEPT !.binlogId = hi]
        ELSE m

\* firstBinlogId of startup: the minimum binlog of the store, MIN_VALID_TXNID
\* when the binlog is empty, TXNID_UNINITED for a closed store
StartupFirstBinlogId(open, log) ==
    IF ~open THEN TXNID_UNINITED
    ELSE IF log = {} THEN MIN_VALID_TXNID ELSE Min(log)

\* the stores the second loop of startup comes to: all of them, or those up
\* to the first one whose scan aborts the process
StartupReached(scan) ==
    LET aborted == {i \in Stores : scan[i].result = "abort"}
    IN  IF aborted = {} THEN Stores ELSE {i \in Stores : i <= Min(aborted)}

\* the stores whose recycle slot startup has appended
StartupDone(scan) ==
    {i \in StartupReached(scan) : scan[i].result # "abort"}

\* The state startup() leaves when it returns OK, from the state of the
\* stores and of the Catalog it finds.  When the scan of the dump directory
\* of a store aborts the process (fatal), the vectors hold the entries of
\* the stores handled so far: _syncStatus, _pushStatus and _fullPushStatus
\* up to that store, _logRecycStatus up to the one before it.  scan is the
\* result of maxDumpFileSeq for every store the loop comes to, opened the
\* mode of every open store it does not come to.
StartupFrom(open, entry, empty, log, hi) ==
    /\ now = 0
    /\ isEmpty = empty
    /\ binlog = log
    /\ highest = hi
    /\ catalog = [i \in Stores |->
                    IF entry[i] = NotFound THEN DefaultMeta(i) ELSE entry[i]]
    /\ \E scan \in [Stores -> UNION {StartupScans(open[i], dumpFiles[i]) :
                                        i \in Stores}],
          opened \in [Stores -> OpenModes] :
        /\ \A i \in Stores : scan[i] \in StartupScans(open[i], dumpFiles[i])
        /\ \A i \in StartupReached(scan) : scan[i].result # "error"
        /\ \A i \in Stores \ StartupReached(scan) :
                scan[i] = CHOOSE r \in StartupScans(open[i], dumpFiles[i]) : TRUE
        /\ \A i \in Stores : (i \in StartupReached(scan) \/ ~open[i])
                                    => opened[i] = "READ_WRITE"
        /\ fatal = (StartupReached(scan) # StartupDone(scan))
        /\ syncMeta = [i \in Stores |->
                    StartupMeta(i, entry[i],
                                open[i] /\ i \in StartupReached(scan), hi[i])]
        /\ mode = [i \in Stores |->
                    IF ~open[i] THEN "STORE_NONE"
                    ELSE IF i \in StartupReached(scan)
                    THEN StartupStoreMode(syncMeta[i].syncFromHost)
                    ELSE opened[i]]
        /\ syncStatus = [i \in StartupReached(scan) |->
                    [isRunning |-> FALSE, sessionId |-> U64Max,
                     nextSchedTime |-> StartupTp(open[i], 0)]]
        /\ pushStatus = [i \in StartupReached(scan) |-> <<>>]
        /\ fullPushStatus = [i \in StartupReached(scan) |-> <<>>]
        /\ logRecycStatus = [i \in StartupDone(scan) |->
                    [isRunning |-> FALSE,
                     nextSchedTime |-> StartupTp(open[i], 0),
                     firstBinlogId |-> StartupFirstBinlogId(open[i], log[i]),
                     fileSeq |-> scan[i].value,
                     lastFlushBinlogId |-> TXNID_UNINITED]]
    /\ connectMasterTimeoutMs = ConnectTimeoutAttach
    /\ clientIdGen = 0
    /\ slaveJob = [i \in Stores |-> [n |-> 0, pc |-> "none", pool |-> "none"]]
    /\ pushJob = [i \in Stores |-> <<>>]
    /\ recycJob = [i \in Stores |-> IdleRecycJob]
    /\ changeCall = [i \in Stores |-> NoCall]
    /\ stopped = [i \in Stores |-> FALSE]
    /\ passNow = NoReading
    /\ last = NoOp

\* ------------------------------------------------------------ controller
SlaveSkipIgnoresRunning(i, t) ==
    \/ t < syncStatus[i].nextSchedTime
    \/ syncMeta[i].replState = "REPL_NONE"

\* schedSlaveInLock: the slots the pass leaves alone
SlaveSkip(i, t) ==
    \/ syncStatus[i].isRunning
    \/ t < syncStatus[i].nextSchedTime
    \/ syncMeta[i].replState = "REPL_NONE"

\* the pool a due slave slot is dispatched to
SlavePool(i) ==
    CASE syncMeta[i].replState = "REPL_CONNECT" -> "fullReceiver"
      [] syncMeta[i].replState = "REPL_CONNECTED" -> "incrChecker"
      [] OTHER -> "none"

SlaveDispatched(t) == {i \in Stores : ~SlaveSkip(i, t) /\ SlavePool(i) # "none"}

\* the LOG(FATAL) branch of schedSlaveInLock
SlaveFatal(t) ==
    \E i \in Stores : ~SlaveSkip(i, t) /\ syncMeta[i].replState = "REPL_TRANSFER"

SlaveNotMarked(st) == st

\* _syncStatus[i] as a dispatch leaves it
SlaveMarked(st) == [st EXCEPT !.isRunning = TRUE]

\* recycleFullPushStatus: the entries of store i that timed out
FullPushExpired(i, t) ==
    {k \in DOMAIN fullPushStatus[i] :
        /\ fullPushStatus[i][k].state = "SUCESS"
        /\ t > fullPushStatus[i][k].endTime + FullPushKeep}

\* The loop erases the element its range-for iterator stands on and then
\* advances that iterator: the first expired entry is erased, what the loop
\* visits afterwards is undefined.  The outcomes: the sets of expired
\* entries that contain the first one.
FullPushErased(i, t) ==
    IF FullPushExpired(i, t) = {} THEN {{}}
    ELSE {R \in SUBSET FullPushExpired(i, t) : Min(FullPushExpired(i, t)) \in R}

\* schedMasterInLock: the slots the pass leaves alone
PushSkip(i, c, t) ==
    \/ pushStatus[i][c].isRunning
    \/ t < pushStatus[i][c].nextSchedTime

PushDispatched(i, t) == {c \in DOMAIN pushStatus[i] : ~PushSkip(i, c, t)}

PushNotMarked(st) == st

\* pushStatus[i][c] as a dispatch leaves it
PushMarked(st) == [st EXCEPT !.isRunning = TRUE]

RecycSkipIgnoresRunning(i, t) == t < logRecycStatus[i].nextSchedTime

\* schedRecycLogInLock: the slots the pass leaves alone
RecycSkip(i, t) ==
    \/ logRecycStatus[i].isRunning
    \/ t < logRecycStatus[i].nextSchedTime

RecycDispatched(t) == {i \in Stores : ~RecycSkip(i, t)}

\* _logRecycStatus[i] as a dispatch leaves it
RecycMarked(st) == [st EXCEPT !.isRunning = TRUE]

\* the slave slots schedSlaveInLock has marked when it reaches LOG(FATAL):
\* the due ones before the first store it finds in REPL_TRANSFER
SlaveDispatchedBeforeFatal(t) ==
    {i \in SlaveDispatched(t) :
        \A j \in Stores :
            (~SlaveSkip(j, t) /\ syncMeta[j].replState = "REPL_TRANSFER") => i < j}

\* _syncStatus and the jobs of the slave pools after the slots in D are
\* dispatched
SlaveStatusAfter(D) ==
    [i \in Stores |-> IF i \in D THEN SlaveMarked(syncStatus[i]) ELSE syncStatus[i]]

SlaveJobsAfter(D) ==
    [i \in Stores |->
        IF i \in D
        THEN [n |-> slaveJob[i].n + 1, pc |-> "start", pool |-> SlavePool(i)]
        ELSE slaveJob[i]]

\* recycleFullPushStatus dies in the loop of store j, after an erase: the
\* stores before j were gone through, the stores behind j are not visited
FullPushCrashedAt(erased, j, t) ==
    /\ erased[j] # {}
    /\ \A i \in Stores :
        IF i <= j THEN erased[i] \in FullPushErased(i, t) ELSE erased[i] = {}

\* _fullPushStatus after the entries erased[i] of every store i are erased
FullPushAfter(erased) ==
    [i \in Stores |->
        [k \in DOMAIN fullPushStatus[i] \ erased[i] |-> fullPushStatus[i][k]]]

\* The top of the loop of controlRoutine: the clock is read into the local
\* now, before _mutex is taken.
controlRoutineNow ==
    /\ ~fatal
    /\ passNow = NoReading
    /\ passNow' = now
    /\ last' = NoOp
    /\ UNCHANGED <<now, fatal, storeVars, slaveVars, masterVars, recycVars,
                   stopped, threads>>

\* One pass of the loop of controlRoutine, under _mutex: the three
\* schedulers compare with the local now, recycleFullPushStatus reads the
\* clock again.
controlRoutine ==
    /\ ~fatal
    /\ passNow # NoReading
    /\ passNow' = NoReading
    /\ IF SlaveFatal(passNow)
       THEN /\ fatal' = TRUE
            /\ syncStatus' = SlaveStatusAfter(SlaveDispatchedBeforeFatal(passNow))
            /\ slaveJob' = SlaveJobsAfter(SlaveDispatchedBeforeFatal(passNow))
            /\ last' = [op |-> "controlRoutine", result |-> "FATAL"]
            /\ UNCHANGED <<now, storeVars, syncMeta, connectMasterTimeoutMs,
                           changeCall, masterVars, recycVars, stopped, threads>>
       ELSE \E erased \in [Stores -> {{}} \cup UNION {FullPushErased(i, now) :
                                                           i \in Stores}],
               crash \in BOOLEAN :
            /\ IF crash
               THEN \E j \in Stores : FullPushCrashedAt(erased, j, now)
               ELSE \A i \in Stores : erased[i] \in FullPushErased(i, now)
            /\ syncStatus' = SlaveStatusAfter(SlaveDispatched(passNow))
            /\ slaveJob' = SlaveJobsAfter(SlaveDispatched(passNow))
            /\ fullPushStatus' = FullPushAfter(erased)
            /\ IF crash
               THEN /\ fatal' = TRUE
                    /\ last' = [op |-> "controlRoutine", result |-> "CRASH"]
                    /\ UNCHANGED <<pushStatus, pushJob, recycVars>>
               ELSE /\ fatal' = FALSE
                    /\ pushStatus' = [i \in Stores |->
                          [c \in DOMAIN pushStatus[i] |->
                              IF c \in PushDispatched(i, passNow)
                              THEN PushMarked(pushStatus[i][c])
                              ELSE pushStatus[i][c]]]
                    /\ pushJob' = [i \in Stores |->
                          [c \in DOMAIN pushJob[i]
                                    \cup PushDispatched(i, passNow) |->
                              IF c \in PushDispatched(i, passNow)
                              THEN (IF c \in DOMAIN pushJob[i]
                                    THEN pushJob[i][c] ELSE 0) + 1
                              ELSE pushJob[i][c]]]
                    /\ logRecycStatus' = [i \in Stores |->
                          IF i \in RecycDispatched(passNow)
                          THEN RecycMarked(logRecycStatus[i])
                          ELSE logRecycStatus[i]]
                    /\ recycJob' = [i \in Stores |->
                          IF i \in RecycDispatched(passNow)
                          THEN [IdleRecycJob EXCEPT !.n = recycJob[i].n + 1,
                                                    !.pc = "start"]
                          ELSE recycJob[i]]
                    /\ last' = [op |-> "controlRoutine", result |-> "OK",
                                slave |-> SlaveDispatched(passNow),
                                push |-> {<<i, c>> \in Stores \X ClientIds :
                                            c \in PushDispatched(i, passNow)},
                                recyc |-> RecycDispatched(passNow)]
            /\ UNCHANGED <<now, storeVars, syncMeta, connectMasterTimeoutMs,
                           changeCall, clientIdGen, stopped, threads>>

\* the clock advances
Tick ==
    /\ ~fatal
    /\ now < MaxTime
    /\ now' = now + 1
    /\ last' = NoOp
    /\ UNCHANGED <<fatal, storeVars, slaveVars, masterVars, recycVars, stopped, threads, passNow>>

\* the clock advances, in a run long enough for a full push to expire
TickLong ==
    /\ ~fatal
    /\ now < MaxLongTime
    /\ now' = now + 1
    /\ last' = NoOp
    /\ UNCHANGED <<fatal, storeVars, slaveVars, masterVars, recycVars, stopped, threads, passNow>>

\* ------------------------------------------------------------ getReplInfo
\* role of getReplInfoSimple: slave when some store has a source
ReplInfoRole ==
    IF \E i \in Stores : syncMeta[i].syncFromHost # "" THEN "slave" ELSE "master"

LastStore == Max(Stores)

\* connected_slaves of getReplInfoSimple: the loop assigns
\* _pushStatus[i].size() for every store in turn, the last store stays
ConnectedSlaves == Cardinality(DOMAIN pushStatus[LastStore])

\* getReplInfoSimple(ss, show_all): writes nothing when getDb fails
getReplInfoSimple ==
    /\ ~fatal
    /\ \E dbOk \in BOOLEAN :
        last' = IF dbOk
                THEN [op |-> "getReplInfo", result |-> "OK",
                      role |-> ReplInfoRole,
                      connected_slaves |-> ConnectedSlaves]
                ELSE [op |-> "getReplInfo", result |-> "none"]
    /\ UNCHANGED <<now, fatal, storeVars, slaveVars, masterVars, recycVars,
                   stopped, threads, passNow>>

\* ------------------------------------------------------------ stopStore
stopStore(i) ==
    /\ ~fatal
    /\ syncStatus' = [syncStatus EXCEPT ![i].nextSchedTime = TimeMax]
    /\ logRecycStatus' = [logRecycStatus EXCEPT ![i].nextSchedTime = TimeMax]
    /\ pushStatus' = [pushStatus EXCEPT ![i] =
            [c \in DOMAIN pushStatus[i] |->
                [pushStatus[i][c] EXCEPT !.nextSchedTime = TimeMax]]]
    /\ fullPushStatus' = [fullPushStatus EXCEPT ![i] = <<>>]
    /\ stopped' = [stopped EXCEPT ![i] = TRUE]
    /\ last' = [op |-> "stopStore", store |-> i, result |-> "ERR_OK"]
    /\ UNCHANGED <<now, fatal, storeVars, syncMeta, connectMasterTimeoutMs,
                   slaveJob, changeCall, clientIdGen, pushJob, recycJob, threads,
                   passNow>>

\* ------------------------------------------------------------ recycleBinlog
\* saveLogs, as read under _mutex
RecycSaveLogs(i) ==
    \/ syncMeta[i].syncFromHost # ""
    \/ (syncMeta[i].syncFromHost = "" /\ DOMAIN pushStatus[i] = {})

\* the binlogPos of every full-push and incr-push entry of store i
SubscriberPos(i) ==
    {fullPushStatus[i][k].binlogPos : k \in DOMAIN fullPushStatus[i]}
    \cup {pushStatus[i][c].binlogPos : c \in DOMAIN pushStatus[i]}

RecycEndOfPushOnly(i) ==
    Min({pushStatus[i][c].binlogPos : c \in DOMAIN pushStatus[i]} \cup {U64Max})

\* end, as read under _mutex
RecycEnd(i) == Min(SubscriberPos(i) \cup {U64Max})

\* values an uninitialized uint64_t may hold: whatever the stack held, a
\* binlog id of an earlier run included
Indeterminate == 0..(MaxBinlogId + 1) \cup {U64Max}

\* Entry of the job: nextSched is the clock plus the randomized interval.
recycleBinlogNow(i) ==
    /\ ~fatal
    /\ recycJob[i].pc = "start"
    /\ \E d \in TruncateIntervals :
        recycJob' = [recycJob EXCEPT ![i].pc = "getDb",
                                     ![i].nextSched = now + d]
    /\ last' = NoOp
    /\ UNCHANGED <<now, fatal, storeVars, slaveVars, masterVars, logRecycStatus,
                   stopped, threads, passNow>>

\* getDb(LOCK_IX), which fails while a call of changeReplSource holds LOCK_X,
\* and kvstore->isRunning().  The job may have waited for the store lock:
\* the clock of the deferred run is that of now.  A run that goes on holds
\* LOCK_IX and has not taken _mutex yet.
recycleBinlogGetDb(i) ==
    /\ ~fatal
    /\ recycJob[i].pc = "getDb"
    /\ \E dbOk \in BOOLEAN, running \in BOOLEAN :
        /\ HoldsLockX(i) => ~dbOk
        /\ recycJob' = [recycJob EXCEPT ![i] =
                IF ~dbOk
                THEN [@ EXCEPT !.pc = "exit", !.hasError = TRUE,
                               !.before = logRecycStatus[i].firstBinlogId]
                ELSE IF ~running
                THEN [@ EXCEPT !.pc = "exit", !.nextSched = now + DeferDelay,
                               !.before = logRecycStatus[i].firstBinlogId]
                ELSE [@ EXCEPT !.pc = "enter"]]
    /\ last' = NoOp
    /\ UNCHANGED <<now, fatal, storeVars, slaveVars, masterVars, logRecycStatus,
                   stopped, threads, passNow>>

\* The critical section that reads saveLogs, start and end, under _mutex.
recycleBinlogEnter(i) ==
    /\ ~fatal
    /\ recycJob[i].pc = "enter"
    /\ recycJob' = [recycJob EXCEPT ![i] =
            [@ EXCEPT !.pc = "truncate",
                      !.saveLogs = RecycSaveLogs(i),
                      !.start = logRecycStatus[i].firstBinlogId,
                      !.startInit = TRUE,
                      !.end = RecycEnd(i),
                      !.before = logRecycStatus[i].firstBinlogId]]
    /\ last' = NoOp
    /\ UNCHANGED <<now, fatal, storeVars, slaveVars, masterVars, logRecycStatus,
                   stopped, threads, passNow>>

\* truncateBinlogV2(start, end, txn, fs): the values of newStart.  The store
\* deletes, in id order, records with start <= id < end and returns the id
\* after the last one it deleted, or start when it deleted none.
TruncateNewStarts(log, start, end) ==
    {start} \cup {k + 1 : k \in {j \in log : start <= j /\ j < end}}

TruncateDeleted(log, start, newStart) ==
    {j \in log : start <= j /\ j < newStart}

\* updateCurBinlogFs(storeId, written, timestamp, changeNewFile): fileSeq
\* after the call.  The file goes on, or it is finalized (the rotation
\* threshold is crossed, or the caller forces it) and fileSeq is incremented.
updateCurBinlogFs(seq) ==
    {seq} \cup (IF seq < MaxFileSeq THEN {seq + 1} ELSE {})

\* createTransaction, then under the recycle mutex getCurBinlogFs,
\* truncateBinlogV2 and updateCurBinlogFs.  The records go when the
\* transaction commits.
recycleBinlogTruncate(i) ==
    /\ ~fatal
    /\ recycJob[i].pc = "truncate"
    /\ \E outcome \in {"txnFail", "fsFail", "truncFail", "ok"},
          newStart \in TruncateNewStarts(binlog[i], recycJob[i].start,
                                         recycJob[i].end),
          seq \in updateCurBinlogFs(logRecycStatus[i].fileSeq) :
        /\ outcome = "fsFail" => recycJob[i].saveLogs
        /\ outcome # "ok" => /\ newStart = recycJob[i].start
                             /\ seq = logRecycStatus[i].fileSeq
        /\ logRecycStatus' = [logRecycStatus EXCEPT ![i].fileSeq = seq]
        /\ recycJob' = [recycJob EXCEPT ![i] =
                IF outcome = "ok"
                THEN [@ EXCEPT !.pc = "commit", !.newStart = newStart]
                ELSE [@ EXCEPT !.pc = "exit", !.hasError = TRUE]]
    /\ last' = NoOp
    /\ UNCHANGED <<now, fatal, storeVars, slaveVars, masterVars, stopped,
                   threads, passNow>>

\* txn->commit(), outside the recycle mutex: the records from start up to
\* newStart are gone and the local start becomes newStart.
recycleBinlogCommit(i) ==
    /\ ~fatal
    /\ recycJob[i].pc = "commit"
    /\ \E ok \in BOOLEAN :
        IF ok
        THEN /\ binlog' = [binlog EXCEPT ![i] =
                    @ \ TruncateDeleted(@, recycJob[i].start,
                                        recycJob[i].newStart)]
             /\ recycJob' = [recycJob EXCEPT ![i].pc = "exit",
                                             ![i].start = recycJob[i].newStart]
             /\ last' = [op |-> "truncate", store |-> i,
                         start |-> recycJob[i].start,
                         newStart |-> recycJob[i].newStart,
                         deleted |-> TruncateDeleted(binlog[i],
                                recycJob[i].start, recycJob[i].newStart),
                         end |-> recycJob[i].end,
                         saved |-> recycJob[i].saveLogs]
        ELSE /\ binlog' = binlog
             /\ recycJob' = [recycJob EXCEPT ![i].pc = "exit",
                                             ![i].hasError = TRUE]
             /\ last' = NoOp
    /\ UNCHANGED <<now, fatal, mode, isEmpty, highest, dumpFiles, catalog,
                   slaveVars, masterVars, logRecycStatus, stopped, threads,
                   passNow>>

RecycGuardKeepsOld(old, nextSched) == old

\* the guard: nextSchedTime is only ever advanced
RecycGuardNextSched(old, nextSched) == IF old < nextSched THEN nextSched ELSE old

\* the guard: firstBinlogId
RecycGuardFirstBinlogId(hasError, start) ==
    IF hasError THEN TXNID_UNINITED ELSE start

\* The scope guard of recycleBinlog, under _mutex.
recycleBinlogExit(i) ==
    /\ ~fatal
    /\ recycJob[i].pc = "exit"
    /\ IF ~logRecycStatus[i].isRunning
       THEN /\ fatal' = TRUE
            /\ last' = [op |-> "recycleBinlog", store |-> i, result |-> "FATAL"]
            /\ UNCHANGED <<logRecycStatus, recycJob>>
       ELSE \E start \in (IF recycJob[i].startInit THEN {recycJob[i].start}
                          ELSE Indeterminate) :
            /\ logRecycStatus' = [logRecycStatus EXCEPT ![i] =
                    [@ EXCEPT !.isRunning = FALSE,
                              !.nextSchedTime =
                                  RecycGuardNextSched(@, recycJob[i].nextSched),
                              !.firstBinlogId =
                                  RecycGuardFirstBinlogId(recycJob[i].hasError,
                                                          start)]]
            /\ recycJob' = [recycJob EXCEPT ![i] =
                    [IdleRecycJob EXCEPT !.n = recycJob[i].n - 1]]
            /\ last' = [op |-> "recycleBinlog", store |-> i,
                        result |-> IF recycJob[i].hasError THEN "failed"
                                   ELSE IF recycJob[i].startInit THEN "ok"
                                   ELSE "deferred",
                        before |-> recycJob[i].before,
                        nextSched |-> recycJob[i].nextSched]
            /\ fatal' = FALSE
    /\ UNCHANGED <<now, storeVars, slaveVars, masterVars, stopped, threads, passNow>>

\* onFlush(storeId, binlogid), called by the storage layer
onFlush(i, binlogid) ==
    /\ ~fatal
    /\ logRecycStatus' = [logRecycStatus EXCEPT ![i].lastFlushBinlogId = binlogid]
    /\ last' = [op |-> "onFlush", store |-> i, binlogid |-> binlogid]
    /\ UNCHANGED <<now, fatal, storeVars, slaveVars, masterVars, recycJob,
                   stopped, threads, passNow>>

\* flushCurBinlogFs(storeId): updateCurBinlogFs(storeId, 0, 0, true) under the
\* recycle mutex
flushCurBinlogFs(i) ==
    /\ ~fatal
    /\ \E seq \in updateCurBinlogFs(logRecycStatus[i].fileSeq) :
        logRecycStatus' = [logRecycStatus EXCEPT ![i].fileSeq = seq]
    /\ last' = [op |-> "flushCurBinlogFs", store |-> i]
    /\ UNCHANGED <<now, fatal, storeVars, slaveVars, masterVars, recycJob,
                   stopped, threads, passNow>>

\* resetRecycleState(storeId), called after the binlog of the store was dropped
resetRecycleState(i) ==
    /\ ~fatal
    /\ logRecycStatus' = [logRecycStatus EXCEPT
            ![i].firstBinlogId = MIN_VALID_TXNID,
            ![i].lastFlushBinlogId = TXNID_UNINITED]
    /\ last' = [op |-> "resetRecycleState", store |-> i]
    /\ UNCHANGED <<now, fatal, storeVars, slaveVars, masterVars, recycJob, stopped, threads, passNow>>

\* ------------------------------------------------------------ subscribers
\* positions a subscriber may attach at: every record from the position on
\* is still retained by the store
AttachPositions(i) ==
    {p \in 0..highest[i] : \A k \in BinlogIds : (p <= k /\ k <= highest[i])
                                                    => k \in binlog[i]}

\* A remote slave registers for incremental push: a new entry of
\* _pushStatus[i] under a fresh client id.
registerIncrSync(i) ==
    /\ ~fatal
    /\ isOpen(i)
    /\ clientIdGen < MaxClients
    /\ \E p \in AttachPositions(i) :
        pushStatus' = [pushStatus EXCEPT ![i] =
            [c \in DOMAIN pushStatus[i] \cup {clientIdGen + 1} |->
                IF c = clientIdGen + 1
                THEN [isRunning |-> FALSE, binlogPos |-> p, nextSchedTime |-> now]
                ELSE pushStatus[i][c]]]
    /\ clientIdGen' = clientIdGen + 1
    /\ last' = [op |-> "registerIncrSync", store |-> i, client |-> clientIdGen + 1]
    /\ UNCHANGED <<now, fatal, storeVars, slaveVars, fullPushStatus, pushJob,
                   recycVars, stopped, threads, passNow>>

\* the guard of the push job: nextSchedTime is only ever advanced
PushGuardNextSched(old, nextSched) == IF nextSched > old THEN nextSched ELSE old

\* A master-push job ends: the subscriber acknowledged up to p and the slot
\* is released, or the subscriber is gone and its entry is removed.
masterPushRoutine(i, c) ==
    /\ ~fatal
    /\ c \in DOMAIN pushJob[i]
    /\ pushJob[i][c] > 0
    /\ c \in DOMAIN pushStatus[i]
    /\ \E gone \in BOOLEAN, p \in BinlogIds \cup {0} :
        /\ p >= pushStatus[i][c].binlogPos
        /\ p <= highest[i] \/ p = pushStatus[i][c].binlogPos
        /\ gone => p = pushStatus[i][c].binlogPos
        /\ pushStatus' = [pushStatus EXCEPT ![i] =
              IF gone
              THEN [d \in DOMAIN pushStatus[i] \ {c} |-> pushStatus[i][d]]
              ELSE [pushStatus[i] EXCEPT ![c] =
                      [isRunning |-> FALSE, binlogPos |-> p,
                       nextSchedTime |->
                          PushGuardNextSched(pushStatus[i][c].nextSchedTime,
                                             now + PushBackoff)]]]
        /\ last' = [op |-> "masterPushRoutine", store |-> i, client |-> c,
                    gone |-> gone]
    /\ pushJob' = [pushJob EXCEPT ![i][c] = @ - 1]
    /\ UNCHANGED <<now, fatal, storeVars, slaveVars, fullPushStatus, clientIdGen,
                   recycVars, stopped, threads, passNow>>

\* A full push to node k starts: a RUNNING entry at the position of the
\* snapshot.
supplyFullSync(i, k) ==
    /\ ~fatal
    /\ isOpen(i)
    /\ k \notin DOMAIN fullPushStatus[i]
    /\ fullPushStatus' = [fullPushStatus EXCEPT ![i] =
            [j \in DOMAIN fullPushStatus[i] \cup {k} |->
                IF j = k
                THEN [state |-> "RUNNING", binlogPos |-> highest[i],
                      endTime |-> now]
                ELSE fullPushStatus[i][j]]]
    /\ last' = [op |-> "supplyFullSync", store |-> i, node |-> k]
    /\ UNCHANGED <<now, fatal, storeVars, slaveVars, pushStatus, clientIdGen,
                   pushJob, recycVars, stopped, threads, passNow>>

\* The full push to node k ends.
supplyFullSyncEnd(i, k) ==
    /\ ~fatal
    /\ k \in DOMAIN fullPushStatus[i]
    /\ fullPushStatus[i][k].state = "RUNNING"
    /\ \E ok \in BOOLEAN :
        fullPushStatus' = [fullPushStatus EXCEPT ![i][k] =
            [@ EXCEPT !.state = IF ok THEN "SUCESS" ELSE "FAILED",
                      !.endTime = now]]
    /\ last' = [op |-> "supplyFullSyncEnd", store |-> i, node |-> k]
    /\ UNCHANGED <<now, fatal, storeVars, slaveVars, pushStatus, clientIdGen,
                   pushJob, recycVars, stopped, threads, passNow>>

\* ------------------------------------------------------------ slave-sync job
PersistedNever(old, meta, persist) == old

\* changeReplStateInLock(meta, persist): the Catalog entry after the call
PersistedMeta(old, meta, persist) == IF persist THEN meta ELSE old

\* changeReplStateInLock aborts the process when the Catalog write fails
PersistFatal(persist, persistOk) == persist /\ ~persistOk

\* The job reads the meta.  REPL_CONNECT: it connects and enters
\* REPL_TRANSFER, or fails to connect.  REPL_CONNECTED: the session is alive,
\* or it dropped and the store goes back to REPL_CONNECT.
slaveSyncRoutine(i) ==
    /\ ~fatal
    /\ slaveJob[i].pc = "start"
    /\ \E ok \in BOOLEAN, persistOk \in BOOLEAN :
        LET st == syncMeta[i].replState
            m == IF st = "REPL_CONNECT" /\ ok
                 THEN [syncMeta[i] EXCEPT !.replState = "REPL_TRANSFER"]
                 ELSE IF st = "REPL_CONNECTED" /\ ~ok
                 THEN [syncMeta[i] EXCEPT !.replState = "REPL_CONNECT"]
                 ELSE syncMeta[i]
            persist == st = "REPL_CONNECTED" /\ ~ok
        IN  /\ persistOk \/ persist
            /\ IF PersistFatal(persist, persistOk)
               THEN /\ fatal' = TRUE
                    /\ UNCHANGED <<syncMeta, catalog, slaveJob>>
               ELSE /\ fatal' = FALSE
                    /\ syncMeta' = [syncMeta EXCEPT ![i] = m]
                    /\ catalog' = [catalog EXCEPT ![i] =
                                        PersistedMeta(@, m, persist)]
                    /\ slaveJob' = [slaveJob EXCEPT ![i].pc =
                            IF st = "REPL_CONNECT" /\ ok THEN "transfer"
                            ELSE "exit"]
    /\ last' = NoOp
    /\ UNCHANGED <<now, mode, isEmpty, binlog, highest, dumpFiles, syncStatus,
                   connectMasterTimeoutMs, changeCall, masterVars, recycVars,
                   stopped, threads, passNow>>

\* The full sync ends, the one way the worker leaves REPL_TRANSFER:
\* REPL_CONNECTED at the position of the snapshot, persisted, with the
\* session that tails the master.
slaveSyncTransferEnd(i) ==
    /\ ~fatal
    /\ slaveJob[i].pc = "transfer"
    /\ \E persistOk \in BOOLEAN, sid \in SessionIds :
        LET m == [syncMeta[i] EXCEPT !.replState = "REPL_CONNECTED",
                                     !.binlogId = SyncedBinlogId]
        IN  IF PersistFatal(TRUE, persistOk)
            THEN /\ fatal' = TRUE
                 /\ UNCHANGED <<syncMeta, catalog, isEmpty, syncStatus, slaveJob>>
            ELSE /\ fatal' = FALSE
                 /\ syncMeta' = [syncMeta EXCEPT ![i] = m]
                 /\ catalog' = [catalog EXCEPT ![i] = PersistedMeta(@, m, TRUE)]
                 /\ isEmpty' = [isEmpty EXCEPT ![i] = FALSE]
                 /\ syncStatus' = [syncStatus EXCEPT ![i].sessionId = sid]
                 /\ slaveJob' = [slaveJob EXCEPT ![i].pc = "exit"]
    /\ last' = NoOp
    /\ UNCHANGED <<now, mode, binlog, highest, dumpFiles, connectMasterTimeoutMs,
                   changeCall, masterVars, recycVars, stopped, threads, passNow>>

\* the guard of the slave-sync job: nextSchedTime is only ever advanced
SlaveGuardNextSched(old, nextSched) == IF nextSched > old THEN nextSched ELSE old

\* The scope guard of the job: the slot is released and _cv notified.
slaveSyncExit(i) ==
    /\ ~fatal
    /\ slaveJob[i].pc = "exit"
    /\ syncStatus' = [syncStatus EXCEPT ![i] =
            [@ EXCEPT !.isRunning = FALSE,
                      !.nextSchedTime = SlaveGuardNextSched(@, now + SlaveBackoff)]]
    /\ slaveJob' = [slaveJob EXCEPT ![i] =
            [n |-> @.n - 1, pc |-> "none", pool |-> "none"]]
    /\ last' = [op |-> "slaveSyncRoutine", store |-> i]
    /\ UNCHANGED <<now, fatal, storeVars, syncMeta, connectMasterTimeoutMs,
                   changeCall, masterVars, recycVars, stopped, threads, passNow>>

\* ------------------------------------------------------------ changeReplSource
\* _connectMasterTimeoutMs as changeReplSourceInLock sets it on entry
EntryTimeout(ip) == IF ip # "" THEN ConnectTimeoutAttach ELSE ConnectTimeoutDetach

AttachKeepsMode == "READ_WRITE"

\* the mode an attach / a detach sets
AttachStoreMode == "REPLICATE_ONLY"
DetachStoreMode == "READ_WRITE"

AttachMetaConnected(m, ip, port, sourceStoreId) ==
    [m EXCEPT !.syncFromHost = ip, !.syncFromPort = port,
              !.syncFromId = sourceStoreId, !.replState = "REPL_CONNECTED",
              !.binlogId = TXNID_UNINITED]

\* newMeta of an attach
AttachMeta(m, ip, port, sourceStoreId) ==
    [m EXCEPT !.syncFromHost = ip, !.syncFromPort = port,
              !.syncFromId = sourceStoreId, !.replState = "REPL_CONNECT",
              !.binlogId = TXNID_UNINITED]

DetachKeepsBinlogId(m, ip, port, sourceStoreId) ==
    [m EXCEPT !.syncFromHost = ip, !.syncFromPort = port,
              !.syncFromId = sourceStoreId, !.replState = "REPL_NONE"]

DetachKeepsReplState(m, ip, port, sourceStoreId) ==
    [m EXCEPT !.syncFromHost = ip, !.syncFromPort = port,
              !.syncFromId = sourceStoreId, !.binlogId = TXNID_UNINITED]

\* newMeta of a detach
DetachMeta(m, ip, port, sourceStoreId) ==
    [m EXCEPT !.syncFromHost = ip, !.syncFromPort = port,
              !.syncFromId = sourceStoreId, !.replState = "REPL_NONE",
              !.binlogId = TXNID_UNINITED]

WaitIgnoresRunning(i) == TRUE

\* the wait on _cv ends with the predicate true
WaitSucceeds(i) == ~syncStatus[i].isRunning

\* changeReplSourceInLock from its wait on: what the call leaves.  modeOk is
\* the result of setStoreMode, dbOk the result of getDb(LOCK_NONE).  The
\* timeout written on entry stays; an attach and a detach that reach
\* setStoreMode write it once more.
InLockOutcome(i, ip, port, sourceStoreId, dbOk, modeOk) ==
    LET keep == [result |-> "ERR_OK", timeout |-> connectMasterTimeoutMs,
                 mode |-> mode[i], meta |-> syncMeta[i], persist |-> FALSE,
                 sessionId |-> syncStatus[i].sessionId]
    IN  IF ~WaitSucceeds(i) THEN [keep EXCEPT !.result = "ERR_TIMEOUT"]
        ELSE IF ~dbOk THEN [keep EXCEPT !.result = "ERR_STORE"]
        ELSE IF ip # ""
        THEN IF syncMeta[i].syncFromHost # ""
             THEN [keep EXCEPT !.result = "ERR_BUSY"]
             ELSE IF ~modeOk
             THEN [keep EXCEPT !.result = "ERR_STORE",
                               !.timeout = ConnectTimeoutAttach]
             ELSE [keep EXCEPT !.timeout = ConnectTimeoutAttach,
                               !.mode = AttachStoreMode,
                               !.meta = AttachMeta(syncMeta[i], ip, port,
                                                   sourceStoreId),
                               !.persist = TRUE]
        ELSE IF syncMeta[i].syncFromHost = ""
             THEN keep
             ELSE IF ~modeOk
             THEN [keep EXCEPT !.result = "ERR_STORE",
                               !.timeout = ConnectTimeoutDetach,
                               !.sessionId = U64Max]
             ELSE [keep EXCEPT !.timeout = ConnectTimeoutDetach,
                               !.sessionId = U64Max,
                               !.mode = DetachStoreMode,
                               !.meta = DetachMeta(syncMeta[i], ip, port,
                                                   sourceStoreId),
                               !.persist = TRUE]

\* the call of an external collaborator that fails in changeReplSourceInLock,
\* if any (the first failure ends the call)
ExternalFailures == {"none", "getDb", "setStoreMode", "setStoreMeta"}

AttachNeverRefused(i, ip) == FALSE

\* the emptiness check of changeReplSource: an attach to a store with data
AttachRefused(i, ip) == ip # "" /\ ~isEmpty[i]

\* changeReplSource(sess, storeId, ip, port, sourceStoreId) up to the first
\* statement of changeReplSourceInLock: getDb(LOCK_X), which fails while
\* another call or a recycle job holds the lock of the store, the checks of
\* isOpen and isEmpty, and the read of oldTimeout.  The call holds LOCK_X until it
\* returns.
changeReplSource(i, ip, port, sourceStoreId) ==
    /\ ~fatal
    /\ \E lockOk \in BOOLEAN :
        LET call == [op |-> "changeReplSource", store |-> i, ip |-> ip,
                     oldTimeout |-> connectMasterTimeoutMs]
        IN  /\ (HoldsLockX(i) \/ HoldsLockIX(i)) => ~lockOk
            /\ IF ~lockOk
               THEN /\ last' = call @@ [result |-> "ERR_STORE", inLock |-> FALSE]
                    /\ UNCHANGED changeCall
               ELSE IF ~isOpen(i)
               THEN /\ last' = call @@ [result |-> "ERR_OK", inLock |-> FALSE]
                    /\ UNCHANGED changeCall
               ELSE IF AttachRefused(i, ip)
               THEN /\ last' = call @@ [result |-> "ERR_MANUAL", inLock |-> FALSE]
                    /\ UNCHANGED changeCall
               ELSE /\ last' = NoOp
                    /\ changeCall' = [changeCall EXCEPT ![i] =
                            [pc |-> "write", ip |-> ip, port |-> port,
                             sourceStoreId |-> sourceStoreId,
                             oldTimeout |-> connectMasterTimeoutMs]]
    /\ UNCHANGED <<now, fatal, storeVars, syncMeta, syncStatus,
                   connectMasterTimeoutMs, slaveJob, masterVars, recycVars,
                   stopped, threads, passNow>>

\* changeReplSourceInLock: _connectMasterTimeoutMs is written, before _mutex
\* is taken.
changeReplSourceTimeoutMs(i) ==
    /\ ~fatal
    /\ changeCall[i].pc = "write"
    /\ connectMasterTimeoutMs' = EntryTimeout(changeCall[i].ip)
    /\ changeCall' = [changeCall EXCEPT ![i].pc = "wait"]
    /\ last' = NoOp
    /\ UNCHANGED <<now, fatal, storeVars, syncMeta, syncStatus, slaveJob,
                   masterVars, recycVars, stopped, threads, passNow>>

\* changeReplSourceInLock under _mutex, from the end of its wait on _cv: the
\* wait ends when no slave-sync job of the store runs, or with ERR_TIMEOUT
\* when one still runs at the end of the window.  A Catalog write that fails
\* aborts the process after the timeout, the session and the mode of the
\* store were written.
changeReplSourceInLock(i) ==
    /\ ~fatal
    /\ changeCall[i].pc = "wait"
    /\ \E failure \in ExternalFailures :
        LET dbOk == failure # "getDb"
            modeOk == failure # "setStoreMode"
            persistOk == failure # "setStoreMeta"
            r == InLockOutcome(i, changeCall[i].ip, changeCall[i].port,
                               changeCall[i].sourceStoreId, dbOk, modeOk)
            call == [op |-> "changeReplSource", store |-> i,
                     ip |-> changeCall[i].ip,
                     oldTimeout |-> changeCall[i].oldTimeout]
        IN  /\ connectMasterTimeoutMs' = r.timeout
            /\ mode' = [mode EXCEPT ![i] = r.mode]
            /\ syncStatus' = [syncStatus EXCEPT ![i].sessionId = r.sessionId]
            /\ IF PersistFatal(r.persist, persistOk)
               THEN /\ fatal' = TRUE
                    /\ last' = call @@ [result |-> "FATAL", inLock |-> TRUE]
                    /\ UNCHANGED <<catalog, syncMeta, changeCall>>
               ELSE /\ fatal' = FALSE
                    /\ catalog' = [catalog EXCEPT ![i] =
                                       PersistedMeta(@, r.meta, r.persist)]
                    /\ syncMeta' = [syncMeta EXCEPT ![i] = r.meta]
                    /\ changeCall' = [changeCall EXCEPT ![i] = NoCall]
                    /\ last' = call @@ [result |-> r.result, inLock |-> TRUE]
    /\ UNCHANGED <<now, isEmpty, binlog, highest, dumpFiles, slaveJob, masterVars,
                   recycVars, stopped, threads, passNow>>

\* ------------------------------------------------------------ locks
\* What each operation does to the locks, in program order, when it is
\* called for store s.  Mutex is _mutex, Recyc(s) is
\* *_logRecycleMutex[s], StoreLock(m, s) is the lock of store s in the mode
\* getDb is asked for.  io is a call into the Catalog, the network, the
\* store or the archive file; wr is a write of a field of
\* _logRecycStatus[s]; br is a condition of the code: the thread goes on, or
\* continues at the given instruction.  A return runs the destructors of the
\* locals, last constructed first.  A thread that runs past the end of its
\* program has returned, and its operation is called again.
Mutex == <<"mutex", 0>>
Recyc(s) == <<"recyc", s>>
StoreLock(m, s) == <<m, s>>

Acq(l) == [k |-> "acq", x |-> l]
Rel(l) == [k |-> "rel", x |-> l]
Io(w) == [k |-> "io", x |-> w]
Wr(f, s) == [k |-> "wr", x |-> <<f, s>>]
Br(n) == [k |-> "br", to |-> n]
Jmp(n) == [k |-> "jmp", to |-> n]

\* startup has returned: it is not called again
Ret(status) == [k |-> "ret", x |-> status]

\* _cv.wait_for(lk, ...): the predicate holds and the thread continues at
\* n, or the thread gives up _mutex and takes it again when it is notified
\* or the window has passed
CvWait(n) == [k |-> "wait", to |-> n]

\* the loop body of controlRoutine: the three schedulers under _mutex
ControlRoutineProgram == <<Acq(Mutex), Rel(Mutex)>>

StopStoreProgram == <<Acq(Mutex), Rel(Mutex)>>

OnFlushProgram(s) == <<Acq(Mutex), Wr("lastFlushBinlogId", s), Rel(Mutex)>>

\* changeReplState(storeMeta, persist): changeReplStateInLock under _mutex
ChangeReplStateProgram ==
    <<Acq(Mutex),
      Br(4),                \*  2 persist is false
      Io("catalog"),        \*  3 setStoreMeta
      Rel(Mutex)>>

AppendJSONStatProgram == <<Acq(Mutex), Rel(Mutex)>>

ResetRecycleStateProgram(s) ==
    <<Acq(Recyc(s)), Wr("firstBinlogId", s), Wr("lastFlushBinlogId", s),
      Rel(Recyc(s))>>

\* getCurBinlogFs(storeId) and updateCurBinlogFs(storeId, ...), which their
\* callers enter with the recycle mutex held: they open, write and rotate
\* the archive file and keep its bookkeeping, under that mutex
GetCurBinlogFsProgram(s) == <<Io("archive")>>
UpdateCurBinlogFsProgram(s) == <<Io("archive")>>

\* flushCurBinlogFs: updateCurBinlogFs under the recycle mutex
FlushCurBinlogFsProgram(s) ==
    <<Acq(Recyc(s))>> \o UpdateCurBinlogFsProgram(s) \o <<Rel(Recyc(s))>>

\* the loop over the stores of getReplInfoSimple and getReplInfoDetail, from
\* store i on: getDb(LOCK_NONE), and a return when it fails
RECURSIVE GetDbLoop(_, _)
GetDbLoop(i, ret) ==
    IF i \notin Stores THEN <<>>
    ELSE <<Br(ret), Acq(StoreLock("LOCK_NONE", i)),
           Rel(StoreLock("LOCK_NONE", i))>> \o GetDbLoop(i + 1, ret)

\* getReplInfoSimple: both loops under _mutex
GetReplInfoSimpleProgram ==
    <<Acq(Mutex)>> \o GetDbLoop(0, 2 + 3 * Cardinality(Stores)) \o <<Rel(Mutex)>>

\* getReplInfoDetail: both loops under _mutex
GetReplInfoDetailProgram ==
    <<Acq(Mutex)>> \o GetDbLoop(0, 2 + 3 * Cardinality(Stores)) \o <<Rel(Mutex)>>

\* the second loop of startup from store i on, its first instruction at
\* position at: getDb(LOCK_NONE) and, for an open store, setStoreMode,
\* maxDumpFileSeq and the read of the first binlog; each may end startup
RECURSIVE StartupLoop(_, _, _)
StartupLoop(i, at, ret) ==
    IF i \notin Stores THEN <<>>
    ELSE <<Br(ret),                             \* getDb fails
           Acq(StoreLock("LOCK_NONE", i)),
           Br(at + 4),                          \* the store is closed
           Io("store"),
           Rel(StoreLock("LOCK_NONE", i)),      \* expdb
           Br(ret)>>                            \* a call on the store failed
         \o StartupLoop(i + 1, at + 6, ret)

\* the position of startup after its last statement
StartupOk == 4 + 6 * Cardinality(Stores)

\* startup(): _mutex from the first statement to the return; the controller
\* thread is created before the return
StartupProgram ==
    <<Acq(Mutex),
      Io("catalog"),            \*  2 getStoreMeta, setStoreMeta
      Br(StartupOk + 2)>>       \*  3 the Catalog or a pool fails
    \o StartupLoop(0, 4, StartupOk + 2)
    \o <<Rel(Mutex),            \* StartupOk: the controller thread exists
         Ret("ERR_OK"),
         Rel(Mutex),
         Ret("failed")>>

\* startup has returned ERR_OK
StartupReturned == threads["startup"].pc = StartupOk + 1

\* startup has created the controller thread
ControllerCreated == threads["startup"].pc \in {StartupOk, StartupOk + 1}

RecycleBinlogReadsInBlock(s) ==
    <<Br(18), Acq(StoreLock("LOCK_IX", s)), Br(17), Io("txn"), Br(17),
      Acq(Recyc(s)), Acq(Mutex), Rel(Mutex), Br(12)>>
    \o GetCurBinlogFsProgram(s)
    \o <<Br(22), Io("txn"), Br(22)>>
    \o UpdateCurBinlogFsProgram(s)
    \o <<Rel(Recyc(s)), Io("txn"), Rel(StoreLock("LOCK_IX", s)), Acq(Mutex),
         Wr("firstBinlogId", s), Rel(Mutex), Jmp(24), Rel(Recyc(s)), Jmp(17)>>

\* recycleBinlog.  The scope guard is the first local: it runs after the
\* store lock of expdb has been given up.
RecycleBinlogProgram(s) ==
    <<Br(18),                           \*  1 getDb(LOCK_IX) fails
      Acq(StoreLock("LOCK_IX", s)),     \*  2
      Br(17),                           \*  3 the store is not running
      Acq(Mutex),                       \*  4 saveLogs, start, end
      Rel(Mutex),                       \*  5
      Io("txn"),                        \*  6 createTransaction
      Br(17),                           \*  7 ... fails
      Acq(Recyc(s)),                    \*  8
      Br(12)>>                          \*  9 saveLogs is false
    \o GetCurBinlogFsProgram(s)         \* 10
    \o <<Br(22),                        \* 11 ... fails
         Io("txn"),                     \* 12 truncateBinlogV2
         Br(22)>>                       \* 13 ... fails
    \o UpdateCurBinlogFsProgram(s)      \* 14
    \o <<Rel(Recyc(s)),                 \* 15
         Io("txn"),                     \* 16 commit
         Rel(StoreLock("LOCK_IX", s)),  \* 17 end of the function: expdb
         Acq(Mutex),                    \* 18 the scope guard
         Wr("firstBinlogId", s),        \* 19
         Rel(Mutex),                    \* 20
         Jmp(24),                       \* 21 returned
         Rel(Recyc(s)),                 \* 22 a return inside the block of
         Jmp(17)>>                      \* 23 the recycle mutex

\* changeReplSource and changeReplSourceInLock
ChangeReplSourceProgram(s) ==
    <<Br(20),                           \*  1 getDb(LOCK_X) fails
      Acq(StoreLock("LOCK_X", s)),      \*  2
      Br(19),                           \*  3 not open, or attach and not empty
      Acq(Mutex),                       \*  4
      CvWait(9),                        \*  5 wait_for: the predicate
      Acq(Mutex),                       \*  6 woken
      Br(5),                            \*  7 notified: the predicate again
      Br(18),                           \*  8 the window has passed: ERR_TIMEOUT
      Br(18),                           \*  9 getDb(LOCK_NONE) fails
      Acq(StoreLock("LOCK_NONE", s)),   \* 10
      Br(17),                           \* 11 ERR_BUSY, or already detached
      Br(14),                           \* 12 attach: no session is cancelled
      Io("session"),                    \* 13 cancelSession
      Io("mode"),                       \* 14 setStoreMode
      Br(17),                           \* 15 ... fails
      Io("catalog"),                    \* 16 changeReplStateInLock
      Rel(StoreLock("LOCK_NONE", s)),   \* 17 return of the InLock part: expdb
      Rel(Mutex),                       \* 18 ... lk
      Rel(StoreLock("LOCK_X", s))>>     \* 19 return of changeReplSource: expdb

\* the operations whose locks are those of the store they are called for
PerStoreThreads ==
    {"recycleBinlog", "changeReplSource", "onFlush", "flushCurBinlogFs",
     "resetRecycleState"}

\* the stores a call of thread t is made for
ThreadStores(t) == IF t \in PerStoreThreads THEN Stores ELSE {0}

ProgramOf(t, s) ==
    CASE t = "controlRoutine" -> ControlRoutineProgram
      [] t = "recycleBinlog" -> RecycleBinlogProgram(s)
      [] t = "changeReplSource" -> ChangeReplSourceProgram(s)
      [] t = "onFlush" -> OnFlushProgram(s)
      [] t = "flushCurBinlogFs" -> FlushCurBinlogFsProgram(s)
      [] t = "resetRecycleState" -> ResetRecycleStateProgram(s)
      [] t = "stopStore" -> StopStoreProgram
      [] t = "changeReplState" -> ChangeReplStateProgram
      [] t = "getReplInfoSimple" -> GetReplInfoSimpleProgram
      [] t = "getReplInfoDetail" -> GetReplInfoDetailProgram
      [] t = "appendJSONStat" -> AppendJSONStatProgram
      [] OTHER -> StartupProgram

\* the programs, by thread and store
Programs == [t \in Threads |-> [s \in Stores |-> ProgramOf(t, s)]]

Program(t, s) == Programs[t][s]

Range(q) == {q[k] : k \in DOMAIN q}

\* the modes of a lock that exclude each other
Conflicts(l) ==
    CASE l[1] = "LOCK_X" -> {StoreLock("LOCK_X", l[2]), StoreLock("LOCK_IX", l[2])}
      [] l[1] = "LOCK_IX" -> {StoreLock("LOCK_X", l[2])}
      [] l[1] = "LOCK_NONE" -> {}
      [] OTHER -> {l}

\* the threads that hold a lock thread t cannot share
Holders(t, l) ==
    {u \in Threads \ {t} : Conflicts(l) \cap Range(threads[u].held) # {}}

\* the instruction thread t stands before
Instr(t) == Program(t, threads[t].s)[threads[t].pc]

At(t, kind) == Instr(t).k = kind

Holds(t, l) == l \in Range(threads[t].held)

Blocked(t) == At(t, "acq") /\ Holders(t, Instr(t).x) # {}

RemoveLock(q, l) ==
    LET k == CHOOSE j \in DOMAIN q : q[j] = l
    IN  SubSeq(q, 1, k - 1) \o SubSeq(q, k + 1, Len(q))

\* thread th of operation t at instruction n of its program, or, past the
\* end, at the entry of the next call, for any store
Goto(t, th, n) ==
    IF n > Len(Program(t, th.s))
    THEN {[th EXCEPT !.pc = 1, !.s = s] : s \in ThreadStores(t)}
    ELSE {[th EXCEPT !.pc = n]}

\* the thread as its instruction may leave it
Executed(t) ==
    LET th == threads[t]
        ins == Instr(t)
    IN  CASE ins.k = "acq" ->
                Goto(t, [th EXCEPT !.held = Append(th.held, ins.x)], th.pc + 1)
          [] ins.k = "rel" ->
                Goto(t, [th EXCEPT !.held = RemoveLock(th.held, ins.x)], th.pc + 1)
          [] ins.k = "br" -> Goto(t, th, th.pc + 1) \cup Goto(t, th, ins.to)
          [] ins.k = "jmp" -> Goto(t, th, ins.to)
          [] ins.k = "wait" ->
                Goto(t, [th EXCEPT !.held = RemoveLock(th.held, Mutex)], th.pc + 1)
                \cup Goto(t, th, ins.to)
          [] OTHER -> Goto(t, th, th.pc + 1)

\* thread t may run: startup first; the controller once startup has created
\* it; the operations and the jobs once startup has returned
Callable(t) ==
    CASE t = "startup" -> TRUE
      [] t = "controlRoutine" -> ControllerCreated
      [] OTHER -> StartupReturned

\* Thread t executes the instruction it stands before.
LockStep(t) ==
    /\ ~fatal
    /\ Callable(t)
    /\ ~Blocked(t)
    /\ ~At(t, "ret")
    /\ \E th \in Executed(t) : threads' = [threads EXCEPT ![t] = th]
    /\ last' = NoOp
    /\ UNCHANGED <<now, fatal, storeVars, slaveVars, masterVars, recycVars,
                   stopped, passNow>>

\* ------------------------------------------------------------ specifications
\* what startup may find in the Catalog for store i
CatalogEntries(i) ==
    {NotFound, ConnectMeta(i, "h1"), ConnectedMeta(i, "h1", SyncedBinlogId)}

FullLog == [i \in Stores |-> BinlogIds]
FullHighest == [i \in Stores |-> MaxBinlogId]
NoLog == [i \in Stores |-> {}]
NoHighest == [i \in Stores |-> 0]

PortOf(ip) == IF ip = "" THEN 0 ELSE SrcPort
SourceIdOf(ip) == IF ip = "" THEN 0 ELSE SrcStoreId

\* no archive file exists at startup
NoFiles == [i \in Stores |-> EmptyDumpDir]

\* store 0 is open, store 1 is closed
OneOpen == [i \in Stores |-> i = 0]

\* The slave side: the controller, the slave-sync job, changeReplSource and
\* stopStore, over an open and a closed store with an empty binlog.  Recycle
\* jobs the controller dispatches here stay outstanding; they share no state
\* with the slave side.
InitSlave ==
    /\ threads = [t \in Threads |-> ThreadAtEntry]
    /\ \E empty \in [Stores -> BOOLEAN],
          entry \in [Stores -> UNION {CatalogEntries(i) : i \in Stores}] :
        /\ \A i \in Stores : entry[i] \in CatalogEntries(i)
        /\ empty[1]
        /\ dumpFiles = NoFiles
        /\ StartupFrom(OneOpen, entry, empty, NoLog, NoHighest)

NextSlave ==
    \/ controlRoutineNow
    \/ controlRoutine
    \/ Tick
    \/ \E i \in Stores : slaveSyncRoutine(i)
    \/ \E i \in Stores : slaveSyncTransferEnd(i)
    \/ \E i \in Stores : slaveSyncExit(i)
    \/ \E i \in Stores : stopStore(i)
    \/ \E i \in Stores, ip \in Hosts \cup {""} :
            changeReplSource(i, ip, PortOf(ip), SourceIdOf(ip))
    \/ \E i \in Stores : changeReplSourceTimeoutMs(i)
    \/ \E i \in Stores : changeReplSourceInLock(i)

SpecSlave == InitSlave /\ [][NextSlave]_vars

\* Every store is open, empty and detached at startup, with no Catalog
\* entry: a store is attached only by a call of changeReplSource.
InitDetached ==
    /\ threads = [t \in Threads |-> ThreadAtEntry]
    /\ dumpFiles = NoFiles
    /\ StartupFrom([i \in Stores |-> TRUE], [i \in Stores |-> NotFound],
                [i \in Stores |-> TRUE], NoLog, NoHighest)

NextDetached ==
    \/ controlRoutineNow
    \/ controlRoutine
    \/ Tick
    \/ slaveSyncRoutine(0)
    \/ slaveSyncTransferEnd(0)
    \/ slaveSyncExit(0)
    \/ \E ip \in Hosts \cup {""} :
            changeReplSource(0, ip, PortOf(ip), SourceIdOf(ip))
    \/ changeReplSourceTimeoutMs(0)
    \/ changeReplSourceInLock(0)

SpecDetached == InitDetached /\ [][NextDetached]_vars

\* The master side: the controller, the recycle job, subscribers and their
\* push jobs, stopStore and the callbacks of the storage layer, over an open
\* store that retains records 1..MaxBinlogId and a closed store.
InitMaster ==
    /\ threads = [t \in Threads |-> ThreadAtEntry]
    /\ dumpFiles = NoFiles
    /\ StartupFrom(OneOpen, [i \in Stores |-> NotFound], [i \in Stores |-> i = 1],
                [i \in Stores |-> IF i = 0 THEN BinlogIds ELSE {}],
                [i \in Stores |-> IF i = 0 THEN MaxBinlogId ELSE 0])

\* Recycling: the controller, the recycle job, subscribers that attach,
\* stopStore, resetRecycleState, onFlush and flushCurBinlogFs.
NextRecycle ==
    \/ controlRoutineNow
    \/ controlRoutine
    \/ Tick
    \/ recycleBinlogNow(0)
    \/ recycleBinlogGetDb(0)
    \/ recycleBinlogEnter(0)
    \/ recycleBinlogTruncate(0)
    \/ recycleBinlogCommit(0)
    \/ recycleBinlogExit(0)
    \/ registerIncrSync(0)
    \/ stopStore(0)
    \/ resetRecycleState(0)
    \/ \E binlogid \in 0..MaxBinlogId : onFlush(0, binlogid)
    \/ flushCurBinlogFs(0)

SpecRecycle == InitMaster /\ [][NextRecycle]_vars

\* The worker pool runs every job the controller scheduled: a job that can
\* take its next step is not left waiting forever.
RecycleFairness ==
    /\ WF_vars(recycleBinlogNow(0))
    /\ WF_vars(recycleBinlogGetDb(0))
    /\ WF_vars(recycleBinlogEnter(0))
    /\ WF_vars(recycleBinlogTruncate(0))
    /\ WF_vars(recycleBinlogCommit(0))
    /\ WF_vars(recycleBinlogExit(0))

\* The recycle job on its own schedule: the controller, the job, stopStore and
\* resetRecycleState, with no subscriber; SpecRecycleFair adds the fairness
\* of the worker pool.
NextRecycleJob ==
    \/ controlRoutineNow
    \/ controlRoutine
    \/ Tick
    \/ recycleBinlogNow(0)
    \/ recycleBinlogGetDb(0)
    \/ recycleBinlogEnter(0)
    \/ recycleBinlogTruncate(0)
    \/ recycleBinlogCommit(0)
    \/ recycleBinlogExit(0)
    \/ stopStore(0)
    \/ resetRecycleState(0)

SpecRecycleJob == InitMaster /\ [][NextRecycleJob]_vars

SpecRecycleFair == InitMaster /\ [][NextRecycleJob]_vars /\ RecycleFairness

\* Incremental push: the controller, subscribers and their push jobs, and
\* stopStore.
NextPush ==
    \/ controlRoutineNow
    \/ controlRoutine
    \/ Tick
    \/ registerIncrSync(0)
    \/ \E c \in ClientIds : masterPushRoutine(0, c)
    \/ stopStore(0)

SpecPush == InitMaster /\ [][NextPush]_vars

\* Stopping a store while jobs of all three kinds are in flight: store 0
\* is an open slave with an empty binlog that one subscriber attaches to.
InitStop ==
    /\ threads = [t \in Threads |-> ThreadAtEntry]
    /\ dumpFiles = NoFiles
    /\ StartupFrom(OneOpen, [i \in Stores |-> IF i = 0 THEN ConnectMeta(i, "h1")
                                           ELSE NotFound],
                [i \in Stores |-> TRUE], NoLog, NoHighest)

NextStop ==
    \/ controlRoutineNow
    \/ controlRoutine
    \/ Tick
    \/ slaveSyncRoutine(0)
    \/ slaveSyncTransferEnd(0)
    \/ slaveSyncExit(0)
    \/ recycleBinlogNow(0)
    \/ recycleBinlogGetDb(0)
    \/ recycleBinlogEnter(0)
    \/ recycleBinlogTruncate(0)
    \/ recycleBinlogCommit(0)
    \/ recycleBinlogExit(0)
    \/ (clientIdGen = 0 /\ registerIncrSync(0))
    \/ \E c \in ClientIds : masterPushRoutine(0, c)
    \/ stopStore(0)

SpecStop == InitStop /\ [][NextStop]_vars

\* what startup may find under <dumpPath>/<i>/: up to MaxFiles entries
DumpDirs ==
    {{}} \cup {{f[k] : k \in 1..MaxFiles} : f \in [1..MaxFiles -> DumpFileNames]}

\* Startup over a dump directory that already holds files: the result of
\* the scan of maxDumpFileSeq is the fileSeq of the open store.
InitStartup ==
    /\ threads = [t \in Threads |-> ThreadAtEntry]
    /\ \E files \in DumpDirs :
        /\ dumpFiles = [i \in Stores |->
                            [usable |-> TRUE,
                             files |-> IF i = 0 THEN files ELSE {}]]
        /\ StartupFrom(OneOpen, [i \in Stores |-> NotFound],
                       [i \in Stores |-> TRUE], NoLog, NoHighest)

NextStartup ==
    \/ controlRoutineNow
    \/ controlRoutine
    \/ Tick
    \/ stopStore(0)

SpecStartup == InitStartup /\ [][NextStartup]_vars

\* Introspection on a master: subscribers attach, full pushes start, end and
\* expire, and getReplInfo reports.
NextInfo ==
    \/ controlRoutineNow
    \/ controlRoutine
    \/ TickLong
    \/ registerIncrSync(0)
    \/ \E k \in NodeKeys : supplyFullSync(0, k)
    \/ \E k \in NodeKeys : supplyFullSyncEnd(0, k)
    \/ getReplInfoSimple

SpecInfo == InitMaster /\ [][NextInfo]_vars

\* What a recycle run reads: store 0 is open, a master or a slave that has
\* finished its full sync; one subscriber for incremental push and the nodes
\* of full pushes register before and while the runs of instant 0 are under
\* way.
InitRead ==
    /\ threads = [t \in Threads |-> ThreadAtEntry]
    /\ \E entry \in {NotFound, ConnectedMeta(0, "h1", SyncedBinlogId)} :
        /\ dumpFiles = NoFiles
        /\ StartupFrom(OneOpen, [i \in Stores |-> IF i = 0 THEN entry ELSE NotFound],
                       [i \in Stores |-> i = 1],
                       [i \in Stores |-> IF i = 0 THEN BinlogIds ELSE {}],
                       [i \in Stores |-> IF i = 0 THEN MaxBinlogId ELSE 0])

NextRead ==
    \/ controlRoutineNow
    \/ controlRoutine
    \/ recycleBinlogNow(0)
    \/ recycleBinlogGetDb(0)
    \/ recycleBinlogEnter(0)
    \/ recycleBinlogTruncate(0)
    \/ recycleBinlogCommit(0)
    \/ recycleBinlogExit(0)
    \/ (clientIdGen = 0 /\ registerIncrSync(0))
    \/ \E k \in NodeKeys : supplyFullSync(0, k)

SpecRead == InitRead /\ [][NextRead]_vars

\* The locks: every thread of the manager runs its operation again and
\* again, on any of its paths.
NextLocks == \E t \in Threads : LockStep(t)

\* The manager as constructed: startup is about to run, and the controller,
\* a worker of the log-recycle pool and a caller of each public operation are
\* each about to run for some store.
InitLocks ==
    /\ \E call \in [Threads -> Stores] :
        /\ \A t \in Threads : call[t] \in ThreadStores(t)
        /\ threads = [t \in Threads |-> [ThreadAtEntry EXCEPT !.s = call[t]]]
    /\ dumpFiles = NoFiles
    /\ StartupFrom(OneOpen, [i \in Stores |-> NotFound], [i \in Stores |-> i = 1],
                   [i \in Stores |-> IF i = 0 THEN BinlogIds ELSE {}],
                   [i \in Stores |-> IF i = 0 THEN MaxBinlogId ELSE 0])

SpecLocks == InitLocks /\ [][NextLocks]_vars

\* ------------------------------------------------------------ claims
IsCall(op) == last.op = op

\* C2: for every store at most one slave-sync job is outstanding, and one is
\* outstanding only while slavePov[i].isRunning: the controller never
\* dispatches a slave-side job for a store whose slot is marked running.
C2_OneSlaveJob ==
    \A i \in Stores :
        /\ slaveJob[i].n <= 1
        /\ slaveJob[i].n = 1 => syncStatus[i].isRunning

\* a pass of the controller found the slot of a running job due and left it
C2_Witness ==
    /\ IsCall("controlRoutine")
    /\ last.result = "OK"
    /\ \E i \in Stores :
        /\ slaveJob[i].n = 1
        /\ syncMeta[i].replState = "REPL_CONNECTED"
        /\ now >= syncStatus[i].nextSchedTime
        /\ i \notin last.slave

\* C5: whenever a store is in REPL_TRANSFER its slave slot is marked
\* running, so no pass of the controller reaches the fatal branch of the
\* slave scheduler.
C5_TransferIsOwned ==
    /\ \A i \in Stores :
        syncMeta[i].replState = "REPL_TRANSFER" => syncStatus[i].isRunning
    /\ ~(IsCall("controlRoutine") /\ last.result = "FATAL")

\* a changeReplSource call timed out on a store in REPL_TRANSFER whose slot
\* is due
C5_Witness ==
    /\ IsCall("changeReplSource")
    /\ last.result = "ERR_TIMEOUT"
    /\ syncMeta[last.store].replState = "REPL_TRANSFER"
    /\ now >= syncStatus[last.store].nextSchedTime

ModeOf(host) == IF host = "" THEN "READ_WRITE" ELSE "REPLICATE_ONLY"

\* C6 as stated: every store with a source is REPLICATE_ONLY and every store
\* without one is READ_WRITE.
C6_AsStated ==
    \A i \in Stores : mode[i] = ModeOf(syncMeta[i].syncFromHost)

\* C6, amended: while the process runs, every open store with a source is
\* REPLICATE_ONLY and every open store without one is READ_WRITE; a closed
\* store has no mode.  (A call whose Catalog write fails aborts the process
\* and never returns.)
C6_OpenStoreMode ==
    ~fatal =>
        \A i \in Stores : isOpen(i) => mode[i] = ModeOf(syncMeta[i].syncFromHost)

\* an attach has just returned OK and switched the store to REPLICATE_ONLY
C6_Witness ==
    /\ IsCall("changeReplSource")
    /\ last.result = "ERR_OK"
    /\ last.ip # ""
    /\ isOpen(last.store)
    /\ mode[last.store] = "REPLICATE_ONLY"
    /\ syncMeta[last.store].replState = "REPL_CONNECT"

\* the call obtained LOCK_X on the store: getDb of changeReplSource did not
\* fail
GotStore == last.inLock \/ last.result # "ERR_STORE"

\* C8: a store closed at startup keeps nextSchedTime = time_point::max() in
\* its slave and recycle slots, no slave-side or recycle job is ever
\* dispatched for it, and changeReplSource on it changes nothing and returns
\* OK whenever it obtains the store from the segment manager.
C8_ClosedInv ==
    \A i \in Stores : ~isOpen(i) =>
        /\ syncStatus[i].nextSchedTime = TimeMax
        /\ logRecycStatus[i].nextSchedTime = TimeMax
        /\ slaveJob[i].n = 0
        /\ recycJob[i].n = 0
        /\ (IsCall("controlRoutine") /\ last.result = "OK")
                => i \notin last.slave \cup last.recyc
        /\ (IsCall("changeReplSource") /\ last.store = i /\ GotStore)
                => last.result = "ERR_OK"

C8_ClosedStep ==
    (last'.op = "changeReplSource" /\ ~isOpen(last'.store))
        => UNCHANGED <<now, fatal, storeVars, slaveVars, masterVars, recycVars,
                       stopped>>

C8_ClosedStore == []C8_ClosedInv /\ [][C8_ClosedStep]_vars

\* an attach was called on the closed store while the open store has a job
\* outstanding and the clock has advanced
C8_Witness ==
    /\ IsCall("changeReplSource")
    /\ ~isOpen(last.store)
    /\ last.ip # ""
    /\ syncMeta[last.store].syncFromHost # ""
    /\ now > 0
    /\ \E j \in Stores : slaveJob[j].n = 1

\* C10: a detach that returns OK on an open store leaves its meta with
\* REPL_NONE, an empty source and binlogId = TXNID_UNINITED, in the cache
\* and in the Catalog, and the store READ_WRITE; under SpecDetached the
\* detach undoes an attach made by an earlier call.
C10_RoundTrip ==
    (IsCall("changeReplSource") /\ last.ip = "" /\ last.result = "ERR_OK"
        /\ isOpen(last.store))
    => /\ syncMeta[last.store].replState = "REPL_NONE"
       /\ syncMeta[last.store].syncFromHost = ""
       /\ syncMeta[last.store].binlogId = TXNID_UNINITED
       /\ catalog[last.store] = syncMeta[last.store]
       /\ mode[last.store] = "READ_WRITE"

\* the detach of a store that an earlier call attached and that finished a
\* full sync in between (the store is no longer empty, its source id is the
\* 0 of the detach and not the -1 of the default meta)
C10_Witness ==
    /\ IsCall("changeReplSource")
    /\ last.ip = ""
    /\ last.result = "ERR_OK"
    /\ syncMeta[last.store].syncFromId = 0
    /\ ~isEmpty[last.store]

\* C1: no recycle run truncates a binlog record whose id is at or above the
\* minimum binlogPos over the entries pushStatus[i] and fullPushStatus[i]
\* hold when it truncates.
C1_RecycleSafety ==
    IsCall("truncate") => \A k \in last.deleted : k < RecycEnd(last.store)

\* C3: for every store at most one recycle job is outstanding, and one is
\* outstanding exactly while recycleStatus[i].isRunning: the flag is set at
\* dispatch and cleared by the exit guard of that job.
C3_OneRecycleJob ==
    \A i \in Stores :
        /\ recycJob[i].n <= 1
        /\ recycJob[i].n = 1 <=> logRecycStatus[i].isRunning

\* a pass of the controller found the slot of a running recycle job due and
\* left it, after an earlier run of the store had truncated records
C3_Witness ==
    /\ IsCall("controlRoutine")
    /\ last.result = "OK"
    /\ \E i \in Stores :
        /\ recycJob[i].n = 1
        /\ now >= logRecycStatus[i].nextSchedTime
        /\ i \notin last.recyc
        /\ binlog[i] # BinlogIds

PushJobs(i, c) == IF c \in DOMAIN pushJob[i] THEN pushJob[i][c] ELSE 0

\* C4: for every entry (i, c) of pushStatus at most one master-push job is
\* outstanding, and one is outstanding exactly while the entry is marked
\* running.
C4_PushJobIffRunning ==
    \A i \in Stores : \A c \in DOMAIN pushStatus[i] :
        /\ PushJobs(i, c) <= 1
        /\ PushJobs(i, c) = 1 <=> pushStatus[i][c].isRunning

\* a pass of the controller found the entry of a running push job due and
\* left it
C4_Witness ==
    /\ IsCall("controlRoutine")
    /\ last.result = "OK"
    /\ \E i \in Stores : \E c \in DOMAIN pushStatus[i] :
        /\ PushJobs(i, c) = 1
        /\ now >= pushStatus[i][c].nextSchedTime
        /\ <<i, c>> \notin last.push

\* C7: once stopStore(i) has returned, no pass of the controller dispatches
\* a slave-sync, master-push or recycle job for store i.
C7_AsStated ==
    (IsCall("controlRoutine") /\ last.result = "OK") =>
        \A i \in Stores : Stopped(i) =>
            /\ i \notin last.slave
            /\ i \notin last.recyc
            /\ \A c \in ClientIds : <<i, c>> \notin last.push

\* C9: after a recycle run that did not fail, firstBinlogId is at least what
\* it was when the run began.
C9_Monotone ==
    (IsCall("recycleBinlog") /\ last.result \in {"ok", "deferred"})
        => logRecycStatus[last.store].firstBinlogId >= last.before

\* ------------------------------------------------------------ error paths
\* a step is a call of changeReplSource that has just returned
ChangeReplSourceStep == last'.op = "changeReplSource"

\* The step in which a call returns changes none of the fields a call can
\* change, and _connectMasterTimeoutMs is what the call found on entry.
ManagerUnchanged ==
    /\ UNCHANGED <<syncMeta, catalog, mode, syncStatus>>
    /\ connectMasterTimeoutMs' = last'.oldTimeout

\* C11: a detach of a store that is already detached, returning OK, changes
\* no field of the manager: syncMeta, Catalog, slavePov, store mode and
\* _connectMasterTimeoutMs are as before the call.
C11_DetachNoOp ==
    [][(ChangeReplSourceStep /\ last'.ip = ""
            /\ syncMeta[last'.store].syncFromHost = ""
            /\ last'.result = "ERR_OK")
        => ManagerUnchanged]_vars

\* C12: a call of changeReplSource that returns TIMEOUT changes no state:
\* syncMeta, Catalog, store mode, slavePov and _connectMasterTimeoutMs are
\* as before the call.
C12_TimeoutNoChange ==
    [][(ChangeReplSourceStep /\ last'.result = "ERR_TIMEOUT")
        => ManagerUnchanged]_vars

\* an attach has passed the emptiness check of changeReplSource on store i
AttachProceeds(i) ==
    /\ changeCall[i].pc = "none"
    /\ changeCall'[i].pc # "none"
    /\ changeCall'[i].ip # ""

\* C13: an attach to an open store that is not empty returns MANUAL and
\* changes nothing, whether or not a slave-side job runs and whether or not
\* the store is attached: the call returns from its emptiness check, and no
\* attach goes on to changeReplSourceInLock on a store that is not empty.
C13_NotEmptyManual ==
    [][/\ (ChangeReplSourceStep /\ ~last'.inLock /\ last'.ip # ""
            /\ isOpen(last'.store) /\ ~isEmpty[last'.store] /\ GotStore')
            => (last'.result = "ERR_MANUAL" /\ ManagerUnchanged)
       /\ \A i \in Stores : AttachProceeds(i) => isEmpty[i]]_vars

\* an attach was refused on an attached store with data while its slave-sync
\* job is outstanding
C13_Witness ==
    /\ IsCall("changeReplSource")
    /\ last.result = "ERR_MANUAL"
    /\ syncMeta[last.store].syncFromHost # ""
    /\ slaveJob[last.store].n = 1
    /\ syncStatus[last.store].isRunning

\* C14: an attach to an open, empty store that already has a source returns
\* BUSY and changes no state, _connectMasterTimeoutMs included.
C14_BusyNoChange ==
    [][(ChangeReplSourceStep /\ last'.result = "ERR_BUSY")
        => ManagerUnchanged]_vars

\* C15: the controller pass that follows an attach that returned OK on an
\* open store finds the store in REPL_CONNECT with binlogId = TXNID_UNINITED,
\* marks its slave slot running and submits a slave-sync job to the
\* full-receive pool.
C15_AttachDispatched ==
    [][(IsCall("changeReplSource") /\ last.ip # "" /\ last.result = "ERR_OK"
            /\ last.inLock
            /\ last'.op = "controlRoutine" /\ last'.result = "OK")
        => /\ syncMeta[last.store].replState = "REPL_CONNECT"
           /\ syncMeta[last.store].binlogId = TXNID_UNINITED
           /\ last.store \in last'.slave
           /\ syncStatus'[last.store].isRunning
           /\ slaveJob'[last.store].pool = "fullReceiver"]_vars

\* C16 as stated: in every state after startup the cached syncMeta[i] is the
\* meta last persisted for store i.
C16_CacheIsPersisted ==
    \A i \in Stores : syncMeta[i] = catalog[i]

\* the cached meta has the persisted source
C16_SameSource ==
    \A i \in Stores :
        /\ syncMeta[i].id = catalog[i].id
        /\ syncMeta[i].syncFromHost = catalog[i].syncFromHost
        /\ syncMeta[i].syncFromPort = catalog[i].syncFromPort
        /\ syncMeta[i].syncFromId = catalog[i].syncFromId

\* a call of changeReplSource that changes the cached meta has persisted the
\* meta it installs, and a step that aborts on a failed Catalog write leaves
\* the cache as it was
C16_InstallStep ==
    /\ (ChangeReplSourceStep /\ syncMeta'[last'.store] # syncMeta[last'.store])
            => catalog'[last'.store] = syncMeta'[last'.store]
    /\ fatal' => UNCHANGED syncMeta

\* C16, amended: the cached meta always has the persisted source; every
\* change of it made by changeReplSource (persist = true) follows a
\* successful Catalog write of the same meta, and a failed write aborts
\* without updating the cache.  binlogId and replState of the cache may
\* differ from the persisted ones.
C16_PersistBeforeInstall == []C16_SameSource /\ [][C16_InstallStep]_vars

\* a detach has installed a meta it persisted, on a store that startup found
\* attached
C16_Witness ==
    /\ IsCall("changeReplSource")
    /\ last.ip = ""
    /\ last.inLock
    /\ last.result = "ERR_OK"
    /\ syncMeta[last.store].syncFromId = 0
    /\ catalog[last.store] = syncMeta[last.store]

\* the file sequences startup parsed from the archive files of store i:
\* those of the regular files whose field stoul accepts
ParsedFileSeqs(i) ==
    {StoulValue(FileSeqField(f)) :
        f \in {g \in dumpFiles[i].files :
                    g.regular /\ StoulOk(FileSeqField(g))}}

\* C17 as stated: after the scan of startup, fileSeq of an open store is
\* strictly greater than every file sequence parsed from an existing archive
\* file.
C17_StrictlyGreater ==
    \A i \in DOMAIN logRecycStatus : isOpen(i) =>
        \A n \in ParsedFileSeqs(i) : logRecycStatus[i].fileSeq > n

\* a pass of the controller that removed an entry of _fullPushStatus
FullPushCollected ==
    /\ last'.op = "controlRoutine"
    /\ last'.result = "OK"
    /\ \E i \in Stores : DOMAIN fullPushStatus'[i] # DOMAIN fullPushStatus[i]

\* C18: when a pass of the controller garbage-collects a fullPushStatus
\* entry, the connected_slaves getReplInfo reports after the pass is one
\* less than the value it reports before.
C18_CollectedDecrements ==
    [][FullPushCollected => ConnectedSlaves' = ConnectedSlaves - 1]_vars

\* C19: a call of changeReplSource installs a new syncMeta[storeId] only
\* when slavePov[storeId].isRunning is false and no slave-side job of the
\* store is outstanding, before and after the step that waits and installs.
C19_InstallWhenIdle ==
    [][(ChangeReplSourceStep /\ syncMeta'[last'.store] # syncMeta[last'.store])
        => /\ ~syncStatus[last'.store].isRunning
           /\ ~syncStatus'[last'.store].isRunning
           /\ slaveJob[last'.store].n = 0
           /\ slaveJob'[last'.store].n = 0]_vars

\* a detach installed its meta on a store whose slave-sync job had run and
\* left before the call
C19_Witness ==
    /\ IsCall("changeReplSource")
    /\ last.ip = ""
    /\ last.inLock
    /\ last.result = "ERR_OK"
    /\ syncMeta[last.store].replState = "REPL_NONE"
    /\ syncStatus[last.store].nextSchedTime > 0
    /\ syncStatus[last.store].nextSchedTime < TimeMax
    /\ slaveJob[last.store].n = 0

\* the step is the scope guard of a recycle job
RecycleExitStep == last'.op = "recycleBinlog"

C20_ExitStep ==
    RecycleExitStep =>
        /\ last'.result \in {"failed", "ok", "deferred"}
        /\ logRecycStatus[last'.store].isRunning
        /\ ~logRecycStatus'[last'.store].isRunning
        /\ logRecycStatus'[last'.store].nextSchedTime >= last'.nextSched
        /\ logRecycStatus'[last'.store].nextSchedTime
               >= logRecycStatus[last'.store].nextSchedTime

\* C20: every dispatched recycle job eventually exits, and its exit, on the
\* failure paths, the deferred path and the success path alike, clears
\* recycleStatus[i].isRunning and leaves recycleStatus[i].nextSchedTime at or
\* after the nextSched the job computed and never before its earlier value.
C20_RecycleJobExits ==
    /\ \A i \in Stores : (recycJob[i].n > 0) ~> (recycJob[i].n = 0)
    /\ [][C20_ExitStep]_vars

\* a job dispatched before stopStore left on a failure path and the slot
\* still holds the largest instant
C20_Witness ==
    /\ last.op = "recycleBinlog"
    /\ last.result = "failed"
    /\ Stopped(last.store)
    /\ last.nextSched < TimeMax
    /\ logRecycStatus[last.store].nextSchedTime = TimeMax
    /\ ~logRecycStatus[last.store].isRunning
    /\ recycJob[last.store].n = 0

\* ------------------------------------------------------------ recycle run
\* the step is the first critical section of a recycle run on a running store
RecycleReadStep(i) == recycJob[i].pc = "enter" /\ recycJob'[i].pc = "truncate"

C23_ReadStep(i) ==
    RecycleReadStep(i) =>
        /\ recycJob'[i].start = logRecycStatus[i].firstBinlogId
        /\ \A k \in DOMAIN fullPushStatus[i] :
                recycJob'[i].end <= fullPushStatus[i][k].binlogPos
        /\ \A c \in DOMAIN pushStatus[i] :
                recycJob'[i].end <= pushStatus[i][c].binlogPos
        /\ \/ recycJob'[i].end = U64Max
                /\ DOMAIN fullPushStatus[i] = {} /\ DOMAIN pushStatus[i] = {}
           \/ \E k \in DOMAIN fullPushStatus[i] :
                recycJob'[i].end = fullPushStatus[i][k].binlogPos
           \/ \E c \in DOMAIN pushStatus[i] :
                recycJob'[i].end = pushStatus[i][c].binlogPos
        /\ recycJob'[i].saveLogs <=>
                \/ syncMeta[i].syncFromHost # ""
                \/ syncMeta[i].syncFromHost = "" /\ DOMAIN pushStatus[i] = {}

\* C23: a recycle run of a running store reads start = firstBinlogId, end =
\* the least binlogPos over the full-push and incr-push entries (u64 max
\* when there is none) and saveLogs = the store has a source, or has none
\* and no incr-push subscriber.
C23_RecycleReads == [][\A i \in Stores : C23_ReadStep(i)]_vars

\* a run on a master read its values while a full push at the head of the
\* binlog and an incr-push subscriber behind it were registered
C23_Witness ==
    /\ recycJob[0].pc = "truncate"
    /\ syncMeta[0].syncFromHost = ""
    /\ ~recycJob[0].saveLogs
    /\ recycJob[0].end < MaxBinlogId
    /\ \E k \in DOMAIN fullPushStatus[0] :
            fullPushStatus[0][k].binlogPos = MaxBinlogId
    /\ \E c \in DOMAIN pushStatus[0] :
            pushStatus[0][c].binlogPos = recycJob[0].end

\* ------------------------------------------------------------ full-push GC
\* the entries of store i the pass is to remove: SUCCESS and ended more than
\* 600 s ago
C24_Due(i) ==
    {k \in DOMAIN fullPushStatus[i] :
        /\ fullPushStatus[i][k].state = "SUCESS"
        /\ now - fullPushStatus[i][k].endTime > FullPushKeep}

\* C24: a controller pass removes from fullPushStatus every entry that is
\* SUCCESS with endTime more than 600 s ago, several of one store included,
\* and no other entry.
C24_PassCollectsAll ==
    [][(last'.op = "controlRoutine" /\ last'.result = "OK") =>
        \A i \in Stores :
            DOMAIN fullPushStatus'[i] = DOMAIN fullPushStatus[i] \ C24_Due(i)]_vars

\* ------------------------------------------------------------ replState
\* the transitions the state table allows
AllowedTransitions ==
    {<<"REPL_NONE", "REPL_CONNECT">>, <<"REPL_CONNECT", "REPL_TRANSFER">>,
     <<"REPL_TRANSFER", "REPL_CONNECTED">>, <<"REPL_CONNECTED", "REPL_CONNECT">>}
    \cup {<<st, "REPL_NONE">> : st \in {"REPL_CONNECT", "REPL_TRANSFER",
                                        "REPL_CONNECTED"}}

ReplStateStep(i) == <<syncMeta[i].replState, syncMeta'[i].replState>>

\* a successful attach moves the store from REPL_NONE to REPL_CONNECT, a
\* successful detach moves it to REPL_NONE
C25_SourceChange ==
    (ChangeReplSourceStep /\ last'.result = "ERR_OK" /\ last'.inLock) =>
        /\ \A i \in Stores \ {last'.store} : syncMeta'[i] = syncMeta[i]
        /\ last'.ip # "" => ReplStateStep(last'.store) =
                                <<"REPL_NONE", "REPL_CONNECT">>
        /\ last'.ip = "" => syncMeta'[last'.store].replState = "REPL_NONE"

\* C25: every change of syncMeta[i].replState is one of NONE -> CONNECT,
\* CONNECT -> TRANSFER, TRANSFER -> CONNECTED, CONNECTED -> CONNECT or any
\* state -> NONE; a successful attach moves the store from REPL_NONE to
\* REPL_CONNECT and a successful detach to REPL_NONE.
C25_Transitions ==
    [][/\ \A i \in Stores :
            syncMeta'[i].replState # syncMeta[i].replState
                => ReplStateStep(i) \in AllowedTransitions
       /\ C25_SourceChange]_vars

\* a store that was detached by a call is attached again by the next one,
\* after its slave-sync job has run
C25_Witness ==
    /\ IsCall("changeReplSource")
    /\ last.ip # ""
    /\ last.inLock
    /\ last.result = "ERR_OK"
    /\ last.oldTimeout = ConnectTimeoutDetach
    /\ syncMeta[last.store].replState = "REPL_CONNECT"
    /\ syncStatus[last.store].nextSchedTime > 0
    /\ syncStatus[last.store].nextSchedTime < TimeMax

\* ------------------------------------------------------------ wait window
\* the window of the wait on _cv, in ms
WaitWindow(oldTimeout) == oldTimeout + 2000

\* C26: the wait of changeReplSource(storeId, ...) is bounded by
\* oldTimeout + 2000 ms with oldTimeout = 1000 ms when store storeId was
\* attached before the call and 1 ms when it was detached.
C26_WaitWindow ==
    [][(ChangeReplSourceStep /\ last'.inLock) =>
        WaitWindow(last'.oldTimeout) =
            WaitWindow(IF syncMeta[last'.store].syncFromHost # ""
                       THEN ConnectTimeoutAttach
                       ELSE ConnectTimeoutDetach)]_vars

\* ------------------------------------------------------------ deferred run
\* C28: a recycle run that exits early because the store is not running
\* leaves firstBinlogId as it was before the run; of recycleStatus[i] only
\* isRunning and nextSchedTime change.
C28_DeferredKeepsFirst ==
    [][(RecycleExitStep /\ last'.result = "deferred") =>
        /\ logRecycStatus'[last'.store].firstBinlogId =
                logRecycStatus[last'.store].firstBinlogId
        /\ logRecycStatus'[last'.store].fileSeq =
                logRecycStatus[last'.store].fileSeq
        /\ logRecycStatus'[last'.store].lastFlushBinlogId =
                logRecycStatus[last'.store].lastFlushBinlogId]_vars

\* ------------------------------------------------------------ source and state
\* C29: after a startup whose Catalog entries are absent or have an empty
\* host exactly when their state is REPL_NONE, every store has an empty
\* syncFromHost if and only if its replState is REPL_NONE.
C29_HostIffNone ==
    \A i \in Stores :
        syncMeta[i].syncFromHost = "" <=> syncMeta[i].replState = "REPL_NONE"

\* a store that had finished its full sync was detached by a call while the
\* other store is closed and has no source
C29_Witness ==
    /\ IsCall("changeReplSource")
    /\ last.ip = ""
    /\ last.inLock
    /\ last.result = "ERR_OK"
    /\ last.oldTimeout = ConnectTimeoutAttach
    /\ ~isEmpty[last.store]
    /\ syncMeta[last.store].syncFromHost = ""
    /\ catalog[last.store].replState = "REPL_NONE"
    /\ \E j \in Stores \ {last.store} : syncMeta[j].syncFromHost = ""

\* ------------------------------------------------------------ failed calls
\* the statuses changeReplSource returns other than OK
ErrorResults == {"ERR_STORE", "ERR_MANUAL", "ERR_TIMEOUT", "ERR_BUSY"}

\* C30: a call of changeReplSource that returns a status other than OK
\* leaves syncMeta[storeId], slavePov[storeId].sessionId (and with it the
\* network session it names) and the store mode as they were.
C30_AllOrNothing ==
    [][(ChangeReplSourceStep /\ last'.result \in ErrorResults) =>
        /\ syncMeta'[last'.store] = syncMeta[last'.store]
        /\ syncStatus'[last'.store].sessionId = syncStatus[last'.store].sessionId
        /\ mode'[last'.store] = mode[last'.store]]_vars

\* ------------------------------------------------------------ lock order
\* the locks of thread t in the order it took them, with the one it is
\* about to take
Attempt(t) ==
    IF At(t, "acq") THEN Append(threads[t].held, Instr(t).x) ELSE threads[t].held

\* thread t takes lock b while it holds lock a
TakesWhileHolding(t, a, b) ==
    \E j, k \in DOMAIN Attempt(t) :
        j < k /\ Attempt(t)[j][1] = a /\ Attempt(t)[k][1] = b

\* a set of threads each of which holds a lock and waits for a lock that
\* another one of them holds
Deadlock ==
    \E T \in SUBSET {t \in Threads : Blocked(t) /\ threads[t].held # <<>>} :
        /\ T # {}
        /\ \A t \in T : Holders(t, Instr(t).x) \cap T # {}

C22_NoIoUnderMutex ==
    \A t \in Threads : At(t, "io") => ~Holds(t, Mutex)

\* C27: the exit guard of the recycle job, onFlush and resetRecycleState
\* never stand at a write of the same field of recycleStatus[i] together:
\* the writes of firstBinlogId and of lastFlushBinlogId are all made under
\* one mutex.
C27_OneWriter ==
    \A t, u \in Threads :
        (t # u /\ At(t, "wr") /\ At(u, "wr")) => Instr(t).x # Instr(u).x

====
